---------------------------- MODULE Spec2Model ----------------------------
(***************************************************************************)
(* A model of the real-time segmentation and online speaker-diarization    *)
(* engine of Local-minutes:                                                *)
(*   backend/diar/online_cluster.py  VarKClustering (the online clusterer) *)
(*   backend/asr/stream_jp.py        RealtimeASR (gate, segments, queue)   *)
(*   backend/api/ws.py               ws_stream (the session loop)          *)
(*                                                                         *)
(* Numbers.  Times are integer milliseconds, audio positions are integer   *)
(* sample offsets, similarities are integers scaled by SimScale and        *)
(* embedding vectors are pairs of integers scaled by VecScale (unit        *)
(* length = VecScale).  A numpy array of audio is modelled by the interval *)
(* <<a, b>> of stream offsets [a, b) it holds.                             *)
(***************************************************************************)
EXTENDS Integers, Sequences, FiniteSets, TLC

VARIABLES
    clu,      \* the VarKClustering instance under test
    clock,    \* time.monotonic() as seen by clu and by the engine, in ms
    ret,      \* what the last assign call on clu returned: [label, kind, emb]
    calls,    \* number of assign calls made on clu
    cluB,     \* a second, independently clocked VarKClustering instance
    clockB,   \* time.monotonic() as seen by cluB
    retB,     \* what the last assign call on cluB returned
    asr,      \* the RealtimeASR instance under test
    fin,      \* what the last try_finalize call returned: <<entry>> or <<>>
    taken,    \* every entry try_finalize has returned, in order
    sent,     \* samples of the stream handed over so far
    nchunks,  \* number of chunks handed over so far
    ws        \* the ws_stream session: its locals, and a log of its chunks

cluVars == <<clu, clock, ret, calls, cluB, clockB, retB>>
asrVars == <<asr, fin, taken, sent, nchunks, ws>>
vars == <<clu, clock, ret, calls, cluB, clockB, retB, asr, fin, taken, sent, nchunks, ws>>

(***************************************************************************)
(* Bounds of the model.                                                    *)
(***************************************************************************)
MaxCalls == 3
MaxChunks == 4
MaxWsChunks == 3
\* receive timeouts are taken only while idle is below MaxIdle seconds
MaxIdle == 2

(***************************************************************************)
(* Fixed-point scales.                                                     *)
(***************************************************************************)
SimScale == 100 * 100
VecScale == 10 * 100
None == "None"
\* an absent timestamp (start_ts / end_ts of assign are Optional[float])
NoTs == 0 - 1

\* the sequence f with every element computed once
Seq1(f) == <<>> \o f

Max(a, b) == IF a >= b THEN a ELSE b
Min(a, b) == IF a <= b THEN a ELSE b

\* a / b rounded to the nearest integer (b > 0)
RDiv(a, b) == (2 * a + b) \div (2 * b)

\* one Newton step towards the square root of n, from every x of X (x > 0)
NewtonStep(n, X) == { (x + n \div x) \div 2 : x \in X }

NewtonStep4(n, X) == NewtonStep(n, NewtonStep(n, NewtonStep(n, NewtonStep(n, X))))

\* sixteen Newton steps from 2^13, then the correction to the floor
SqrtFloor(n) ==
    { IF x * x > n THEN x - 1 ELSE x :
        x \in NewtonStep4(n, NewtonStep4(n, NewtonStep4(n, NewtonStep4(n, {8192})))) }

\* floor of the square root (np.linalg.norm over two components), n < 2^26
ISqrt(n) ==
    CHOOSE r \in UNION { IF m = 0 THEN {0} ELSE SqrtFloor(m) : m \in {n} } : TRUE

Dot(a, b) == a[1] * b[1] + a[2] * b[2]
Norm(a) == ISqrt(Dot(a, a))

\* l2_norm: x / (||x|| + 1e-12)
l2_norm(x) ==
    LET n == Norm(x)
    IN  IF n = 0 THEN <<0, 0>>
        ELSE <<RDiv(x[1] * VecScale, n), RDiv(x[2] * VecScale, n)>>

\* cosine: dot(a, b) / (||a|| * ||b|| + 1e-12), scaled by SimScale
cosine(a, b) ==
    LET na == Norm(a)
        nb == Norm(b)
    IN  IF na = 0 \/ nb = 0 THEN 0
        ELSE RDiv(RDiv(Dot(a, b) * 100, na) * 100, nb)

(***************************************************************************)
(* VarKClustering.__init__: the tunables, at their documented defaults.    *)
(***************************************************************************)
SampleRate == 16000
BootSec == 35000
FreezeSec == 8000
MinShort == 450
MinSwitch == 600
ShortAlt == 7200
ShortDelta == 800
SimBase == 7400
SoftMin == 6200
MarginStrong == 1000
StickySec == 3000
AhcThr == 8200
NewMinSec == 2400
NewCooldown == 6000
NewMaxSim == 9950
SwitchDelta == 15
PruneSec == 3000
BootMaxLen == 512
BootMinSamples == 6

\* same_spk_sim: M4_DIAR_SAME_SPK_SIM unset, so new_max_sim clamped to [-1, 1]
SameSpkSim == Max(-SimScale, Min(SimScale, NewMaxSim))

\* The dicts centroids and durations keep insertion order, which decides ties
\* of max() and the order of pruning: each is a sequence of <<key, value>>.
Keys(d) == {d[i][1] : i \in 1..Len(d)}
HasKey(d, k) == k \in Keys(d)
IndexOf(d, k) == CHOOSE i \in 1..Len(d) : d[i][1] = k
Get(d, k) == d[IndexOf(d, k)][2]
GetOr(d, k, dflt) == IF HasKey(d, k) THEN Get(d, k) ELSE dflt
Put(d, k, v) ==
    IF HasKey(d, k) THEN [d EXCEPT ![IndexOf(d, k)] = <<k, v>>]
    ELSE Append(d, <<k, v>>)
Del(d, k) == SelectSeq(d, LAMBDA e : e[1] # k)

\* f"S{n}"
SLabel(n) == "S" \o ToString(n)

NewClustering(mode, k_max, now) ==
    [ mode |-> mode, k_max |-> k_max,
      start_t |-> now, last_new_t |-> now, last_switch_ts |-> now,
      centroids |-> <<>>, durations |-> <<>>, boot |-> <<>>,
      last_spk |-> None ]

\* SpeakerEmbedding.embed as seen by _embed_wav: it raises, returns None,
\* returns a vector with a non-finite component, or returns a finite vector.
EmbVec(v) == [kind |-> "vec", v |-> v]
EmbRaise == [kind |-> "raise", v |-> <<0, 0>>]
EmbNone == [kind |-> "none", v |-> <<0, 0>>]
EmbNonFinite == [kind |-> "nonfinite", v |-> <<0, 0>>]

\* _embed_wav: None (ok = FALSE), or the l2-normalised vector
EmbedWav(wavLen, emb) ==
    IF wavLen = 0 THEN [ok |-> FALSE, v |-> <<0, 0>>]
    ELSE IF emb.kind # "vec" THEN [ok |-> FALSE, v |-> <<0, 0>>]
    ELSE [ok |-> TRUE, v |-> l2_norm(emb.v)]

(***************************************************************************)
(* ahc_cosine and silhouette_like: the batch K estimation of the bootstrap *)
(***************************************************************************)
SetOfSeq(s) == {s[i] : i \in 1..Len(s)}
FirstWith(labels, l) == CHOOSE i \in 1..Len(labels) :
                            labels[i] = l /\ \A j \in 1..(i - 1) : labels[j] # l

\* the pairs (li, lj), li < lj, in the order the two nested loops visit them
RECURSIVE SortedSeq(_)
SortedSeq(S) ==
    IF S = {} THEN <<>>
    ELSE LET m == CHOOSE x \in S : \A y \in S : x <= y
         IN  <<m>> \o SortedSeq(S \ {m})

AhcDist(embs, i, j) == SimScale - cosine(embs[i], embs[j])

\* the first pair with the strictly smallest distance, as [d, a, b]
RECURSIVE AhcBestPair(_, _, _, _, _, _)
AhcBestPair(embs, labels, uniq, ii, jj, best) ==
    IF ii > Len(uniq) THEN best
    ELSE IF jj > Len(uniq) THEN AhcBestPair(embs, labels, uniq, ii + 1, ii + 2, best)
    ELSE LET d == AhcDist(embs, FirstWith(labels, uniq[ii]), FirstWith(labels, uniq[jj]))
             nb == IF d < best.d THEN [d |-> d, a |-> uniq[ii], b |-> uniq[jj]] ELSE best
         IN  AhcBestPair(embs, labels, uniq, ii, jj + 1, nb)

RECURSIVE AhcLoop(_, _, _, _)
AhcLoop(embs, labels, k, thr) ==
    IF Cardinality(SetOfSeq(labels)) <= k THEN labels
    ELSE LET uniq == SortedSeq(SetOfSeq(labels))
             bp == AhcBestPair(embs, labels, uniq, 1, 2, [d |-> 1000000000, a |-> -1, b |-> -1])
         IN  IF bp.a = -1 \/ (bp.d > thr /\ Cardinality(SetOfSeq(labels)) <= k)
             THEN labels
             ELSE AhcLoop(embs,
                          [i \in 1..Len(labels) |-> IF labels[i] = bp.b THEN bp.a ELSE labels[i]],
                          k, thr)

\* labels renumbered 0..m-1 in increasing order of the surviving labels
ahc_cosine(embs, k, thr) ==
    IF Len(embs) = 0 THEN <<>>
    ELSE LET merged == AhcLoop(embs, [i \in 1..Len(embs) |-> i - 1], k, thr)
             uniq == SortedSeq(SetOfSeq(merged))
         IN  [i \in 1..Len(merged) |->
                 (CHOOSE p \in 1..Len(uniq) : uniq[p] = merged[i]) - 1]

EuclidDist(a, b) == ISqrt((a[1] - b[1]) * (a[1] - b[1]) + (a[2] - b[2]) * (a[2] - b[2]))

RECURSIVE SumSeq(_)
SumSeq(s) == IF Len(s) = 0 THEN 0 ELSE Head(s) + SumSeq(Tail(s))

\* the sum of f(x) over the finite set of integers S
SumOver(S, f(_)) ==
    LET xs == SortedSeq(S)
    IN  SumSeq([k \in 1..Len(xs) |-> f(xs[k])])

MeanDist(embs, members, i) ==
    RDiv(SumOver(members, LAMBDA j : EuclidDist(embs[j], embs[i])), Cardinality(members))

Members(labels, l) == {j \in 1..Len(labels) : labels[j] = l}

SilTerm(embs, labels, i) ==
    LET same == Members(labels, labels[i])
        a == MeanDist(embs, same, i)
        others == SetOfSeq(labels) \ {labels[i]}
        bs == {MeanDist(embs, Members(labels, l), i) : l \in others}
        b == CHOOSE x \in bs : \A y \in bs : x <= y
        m == Max(a, b)
    IN  IF m = 0 THEN 0 ELSE RDiv((b - a) * SimScale, m)

silhouette_like(embs, labels) ==
    IF Len(embs) < 2 \/ Cardinality(SetOfSeq(labels)) = 1 THEN -SimScale
    ELSE LET counted == {i \in 1..Len(embs) : Cardinality(Members(labels, labels[i])) > 1}
         IN  RDiv(SumOver(counted, LAMBDA i : SilTerm(embs, labels, i)),
                  Max(Cardinality(counted), 1))

\* "if score > best_score": the best K so far, as [score, labels, k]
BootKeepBest(best, labels, score) ==
    IF score > best.score
    THEN [score |-> score, labels |-> labels, k |-> Cardinality(SetOfSeq(labels))]
    ELSE best

BootScore(embs, labels, best) == BootKeepBest(best, labels, silhouette_like(embs, labels))

\* the loop "for k in range(1, min(k_max, len(embs)) + 1)" keeping the best score
RECURSIVE BootBestK(_, _, _, _)
BootBestK(embs, k, kEnd, best) ==
    IF k > kEnd THEN best
    ELSE BootBestK(embs, k + 1, kEnd, BootScore(embs, ahc_cosine(embs, k, AhcThr), best))

MeanVec(embs, members) ==
    <<RDiv(SumOver(members, LAMBDA j : embs[j][1]), Cardinality(members)),
      RDiv(SumOver(members, LAMBDA j : embs[j][2]), Cardinality(members))>>

\* "for idx in range(best_k)": one centroid per non-empty group
RECURSIVE BootSeed(_, _, _, _, _)
BootSeed(embs, labels, idx, bestK, cents) ==
    IF idx >= bestK THEN cents
    ELSE LET members == Members(labels, idx)
         IN  IF members = {} THEN BootSeed(embs, labels, idx + 1, bestK, cents)
             ELSE BootSeed(embs, labels, idx + 1, bestK,
                           Put(cents, SLabel(Len(cents) + 1), l2_norm(MeanVec(embs, members))))

\* the centroids seeded from the best grouping
BootCentroids(embs, best) == BootSeed(embs, best.labels, 0, best.k, <<>>)

BootEstimate(embs, k_max) ==
    BootCentroids(embs,
                  BootBestK(embs, 1, Min(k_max, Len(embs)),
                            [score |-> -SimScale,
                             labels |-> [i \in 1..Len(embs) |-> 0], k |-> 1]))

\* _bootstrap_if_needed
BootstrapIfNeeded(c, now) ==
    IF c.mode # "auto" THEN c
    ELSE IF Len(c.centroids) > 0 \/ (now - c.start_t) < BootSec THEN c
    ELSE IF Len(c.boot) < BootMinSamples THEN
        [c EXCEPT !.centroids = IF Len(c.boot) > 0
                                THEN Put(c.centroids, "S1", l2_norm(c.boot[1][3]))
                                ELSE c.centroids,
                  !.boot = <<>>]
    ELSE [c EXCEPT !.centroids = BootEstimate([i \in 1..Len(c.boot) |-> c.boot[i][3]], c.k_max),
                   !.boot = <<>>,
                   !.last_new_t = now]

\* deque(maxlen=512).append
BootAppend(boot, item) ==
    LET b == Append(boot, item)
    IN  IF Len(b) > BootMaxLen THEN Tail(b) ELSE b

(***************************************************************************)
(* VarKClustering: the gates and updates of assign                         *)
(***************************************************************************)
\* _can_make_new without the k_max test of the auto mode
CanMakeNew_NoCap(c, now) ==
    IF c.mode = "fixed2" THEN Len(c.centroids) < 2
    ELSE IF c.mode = "fixedk" THEN Len(c.centroids) < c.k_max
    ELSE IF c.mode = "auto" THEN
        IF (now - c.start_t) < FreezeSec THEN FALSE
        ELSE IF (now - c.last_new_t) < NewCooldown THEN FALSE
        ELSE TRUE
    ELSE FALSE

\* _can_make_new
CanMakeNew(c, now) ==
    IF c.mode = "fixed2" THEN Len(c.centroids) < 2
    ELSE IF c.mode = "fixedk" THEN Len(c.centroids) < c.k_max
    ELSE IF c.mode = "auto" THEN
        IF Len(c.centroids) >= c.k_max THEN FALSE
        ELSE IF (now - c.start_t) < FreezeSec THEN FALSE
        ELSE IF (now - c.last_new_t) < NewCooldown THEN FALSE
        ELSE TRUE
    ELSE FALSE

\* alpha of _update_centroid, scaled by SimScale
CentroidAlpha(conf) ==
    LET conf_term == Max(0, conf - SoftMin)
        ratio == RDiv(conf_term * SimScale, Max(1, SimScale - SoftMin))
    IN  RDiv(600 * Max(2500, Min(SimScale, ratio)), SimScale)

\* _update_centroid
UpdateCentroid(cents, spk, vec0, conf) ==
    LET vec == l2_norm(vec0)
    IN  IF ~HasKey(cents, spk) THEN Put(cents, spk, vec)
        ELSE LET base == Get(cents, spk)
                 alpha == CentroidAlpha(conf)
                 mix == <<RDiv((SimScale - alpha) * base[1] + alpha * vec[1], SimScale),
                          RDiv((SimScale - alpha) * base[2] + alpha * vec[2], SimScale)>>
             IN  Put(cents, spk, l2_norm(mix))

\* self.durations[spk] += duration  (a defaultdict(float))
AddDuration(durs, spk, d) == Put(durs, spk, GetOr(durs, spk, 0) + d)

\* max(keys, key=score): the index of the first entry with the highest score
ArgMaxIdx(vals) ==
    CHOOSE i \in 1..Len(vals) :
        /\ \A j \in 1..Len(vals) : vals[j] <= vals[i]
        /\ \A j \in 1..(i - 1) : vals[j] < vals[i]

\* the highest score among the entries other than index b (dflt when none)
MaxExcept(vals, b, dflt) ==
    LET rest == {vals[j] : j \in (1..Len(vals)) \ {b}}
    IN  IF rest = {} THEN dflt ELSE CHOOSE x \in rest : \A y \in rest : y <= x

\* one iteration of the pruning loop that deletes the centroid of the short
\* cluster and keeps its duration entry
PruneOne_DurationKept(c, keep, spk, dur) ==
    IF spk = keep \/ dur >= PruneSec THEN c
    ELSE IF Len(c.centroids) <= 1 THEN c
    ELSE LET cands == Del(c.centroids, spk)
         IN  IF Len(cands) = 0 THEN c
             ELSE LET mine == Get(c.centroids, spk)
                      ti == ArgMaxIdx(Seq1([i \in 1..Len(cands) |-> cosine(mine, cands[i][2])]))
                      tgt == cands[ti][1]
                      merged == l2_norm(<<cands[ti][2][1] + mine[1], cands[ti][2][2] + mine[2]>>)
                  IN  [c EXCEPT !.centroids = Del(Put(c.centroids, tgt, merged), spk)]

\* _prune_short_clusters: one iteration of "for spk, dur in list(durations.items())"
PruneOne(c, keep, spk, dur) ==
    IF spk = keep \/ dur >= PruneSec THEN c
    ELSE IF Len(c.centroids) <= 1 THEN c
    ELSE LET cands == Del(c.centroids, spk)
         IN  IF Len(cands) = 0 THEN c
             ELSE LET mine == Get(c.centroids, spk)
                      ti == ArgMaxIdx(Seq1([i \in 1..Len(cands) |-> cosine(mine, cands[i][2])]))
                      tgt == cands[ti][1]
                      merged == l2_norm(<<cands[ti][2][1] + mine[1], cands[ti][2][2] + mine[2]>>)
                  IN  [c EXCEPT !.centroids = Del(Put(c.centroids, tgt, merged), spk),
                                !.durations = Del(c.durations, spk)]

RECURSIVE PruneLoop(_, _, _, _)
PruneLoop(c, keep, items, i) ==
    IF i > Len(items) THEN c
    ELSE PruneLoop(PruneOne(c, keep, items[i][1], items[i][2]), keep, items, i + 1)

\* _prune_short_clusters
PruneShortClusters(c, keep) ==
    IF c.mode # "auto" THEN c
    ELSE PruneLoop(c, keep, c.durations, 1)

\* the tail shared by the SHORT, SWITCH_GUARD and MERGE paths of assign
Settle(c, chosen, vec, best_sim, duration, now) ==
    [c EXCEPT !.centroids = UpdateCentroid(c.centroids, chosen, vec, best_sim),
              !.durations = AddDuration(c.durations, chosen, duration),
              !.last_spk = chosen,
              !.last_switch_ts = IF chosen # c.last_spk THEN now ELSE c.last_switch_ts]

Result(c, label, kind) == [clu |-> c, label |-> label, kind |-> kind]

\* "self.last_spk or 'S1'"
LastOrS1(c) == IF c.last_spk # None THEN c.last_spk ELSE "S1"

\* assign, lines 236-254: the duration of the utterance
AssignDuration(wavLen, start_ts, end_ts) ==
    LET given == start_ts # NoTs /\ end_ts # NoTs
        d0 == IF given THEN Max(0, end_ts - start_ts) ELSE 0
    IN  IF ~given \/ d0 <= 0 THEN (wavLen * 1000) \div SampleRate ELSE d0

\* assign, line 258: self.boot.append((start_ts or 0.0, end_ts or 0.0, vec))
BootAppended(c, vec, start_ts, end_ts) ==
    [c EXCEPT !.boot = BootAppend(c.boot,
                                  <<IF start_ts = NoTs THEN 0 ELSE start_ts,
                                    IF end_ts = NoTs THEN 0 ELSE end_ts, vec>>)]

\* assign, lines 256-260: the bootstrap buffer
AssignBoot(c, vec, start_ts, end_ts, now) ==
    IF c.mode = "auto" /\ Len(c.centroids) = 0 THEN
        IF now - c.start_t >= BootSec
        THEN BootstrapIfNeeded(BootAppended(c, vec, start_ts, end_ts), now)
        ELSE BootAppended(c, vec, start_ts, end_ts)
    ELSE c

\* the new-cluster gate of assign without the margin test
NewGate_NoMargin(c, duration, best_sim, margin, now) ==
    LET dur_gate == duration >= NewMinSec
        cooldown_ok == (now - c.last_new_t) >= NewCooldown
        can_new == CanMakeNew(c, now) /\ dur_gate /\ cooldown_ok
        sim_gate == best_sim < SameSpkSim
    IN  can_new /\ sim_gate

\* the new-cluster gate of assign, lines 334-342
NewGate(c, duration, best_sim, margin, now) ==
    LET dur_gate == duration >= NewMinSec
        cooldown_ok == (now - c.last_new_t) >= NewCooldown
        can_new == CanMakeNew(c, now) /\ dur_gate /\ cooldown_ok
        sim_gate == best_sim < SameSpkSim
        margin_gate == IF Len(c.centroids) < 2 THEN TRUE ELSE margin >= MarginStrong
    IN  can_new /\ sim_gate /\ margin_gate

\* assign, lines 320-331: the label kept by the stickiness rules
StickyChoice(c, best, best_sim, last_sim, margin, now) ==
    LET last == c.last_spk
        since_switch == now - c.last_switch_ts
    IN  IF last # None /\ best # last THEN
            IF best_sim >= SameSpkSim /\ last_sim >= SameSpkSim THEN last
            ELSE IF (best_sim - last_sim) < SwitchDelta \/ margin < SwitchDelta THEN
                IF since_switch < StickySec THEN last ELSE best
            ELSE IF since_switch < StickySec THEN last
            ELSE best
        ELSE best

\* assign with a short utterance always given to the best cluster
AssignDecide_ShortTakesBest(c, vec, duration, now, best, best_sim, margin, last, last_sim) ==
    IF duration < MinShort THEN
        LET chosen == best
        IN  Result(Settle(c, chosen, vec, best_sim, duration, now), chosen, "SHORT")
    ELSE IF duration < MinSwitch /\ last # None THEN
        LET chosen == IF best_sim >= Max(SimBase, ShortAlt)
                         /\ (best_sim - last_sim) >= ShortDelta
                      THEN best ELSE last
        IN  Result(Settle(c, chosen, vec, best_sim, duration, now), chosen, "SWITCH_GUARD")
    ELSE IF NewGate(c, duration, best_sim, margin, now) THEN
        LET new_name == SLabel(Len(c.centroids) + 1)
        IN  Result([c EXCEPT !.centroids = Put(c.centroids, new_name, vec),
                             !.durations = Put(c.durations, new_name, duration),
                             !.last_spk = new_name,
                             !.last_new_t = now,
                             !.last_switch_ts = now],
                   new_name, "NEW")
    ELSE
        LET chosen == StickyChoice(c, best, best_sim, last_sim, margin, now)
        IN  Result(PruneShortClusters(Settle(c, chosen, vec, best_sim, duration, now), chosen),
                   chosen, "MERGE")

\* assign, lines 294-375: the decision, given the scores of lines 271-278
AssignDecide(c, vec, duration, now, best, best_sim, margin, last, last_sim) ==
    IF duration < MinShort THEN
        LET chosen == IF last # None /\ best # last
                         /\ best_sim >= ShortAlt /\ (best_sim - last_sim) >= ShortDelta
                      THEN best
                      ELSE IF last # None THEN last ELSE best
        IN  Result(Settle(c, chosen, vec, best_sim, duration, now), chosen, "SHORT")
    ELSE IF duration < MinSwitch /\ last # None THEN
        LET chosen == IF best_sim >= Max(SimBase, ShortAlt)
                         /\ (best_sim - last_sim) >= ShortDelta
                      THEN best ELSE last
        IN  Result(Settle(c, chosen, vec, best_sim, duration, now), chosen, "SWITCH_GUARD")
    ELSE IF NewGate(c, duration, best_sim, margin, now) THEN
        LET new_name == SLabel(Len(c.centroids) + 1)
        IN  Result([c EXCEPT !.centroids = Put(c.centroids, new_name, vec),
                             !.durations = Put(c.durations, new_name, duration),
                             !.last_spk = new_name,
                             !.last_new_t = now,
                             !.last_switch_ts = now],
                   new_name, "NEW")
    ELSE
        LET chosen == StickyChoice(c, best, best_sim, last_sim, margin, now)
        IN  Result(PruneShortClusters(Settle(c, chosen, vec, best_sim, duration, now), chosen),
                   chosen, "MERGE")

\* assign, lines 272-278: best, second, margin and last_sim from the scores
AssignRanked(c, vec, duration, now, simv, bi) ==
    AssignDecide(c, vec, duration, now,
                 c.centroids[bi][1], simv[bi],
                 simv[bi] - MaxExcept(simv, bi, -SimScale),
                 c.last_spk,
                 IF c.last_spk # None /\ HasKey(c.centroids, c.last_spk)
                 THEN simv[IndexOf(c.centroids, c.last_spk)] ELSE -SimScale)

AssignSims(c, vec, duration, now, simv) ==
    AssignRanked(c, vec, duration, now, simv, ArgMaxIdx(simv))

\* assign, lines 271-375, once at least one centroid exists
AssignScored(c, vec, duration, now) ==
    AssignSims(c, vec, duration, now,
               Seq1([i \in 1..Len(c.centroids) |-> cosine(vec, c.centroids[i][2])]))

\* assign, lines 262-375, after the bootstrap buffer was served
AssignAfterBoot(c1, vec, duration, now) ==
    IF Len(c1.centroids) = 0 THEN
        Result([c1 EXCEPT !.centroids = Put(c1.centroids, "S1", vec),
                          !.durations = AddDuration(c1.durations, "S1", duration),
                          !.last_spk = "S1",
                          !.last_switch_ts = now],
               "S1", "INIT")
    ELSE AssignScored(c1, vec, duration, now)

\* assign with a failed embedding taken for a new voice
AssignVec_NewOnFailure(c, e, duration, start_ts, end_ts, now) ==
    IF ~e.ok THEN Result([c EXCEPT !.last_spk = SLabel(Len(c.centroids) + 2)],
                         SLabel(Len(c.centroids) + 2), "NOVEC")
    ELSE AssignAfterBoot(AssignBoot(c, e.v, start_ts, end_ts, now), e.v, duration, now)

AssignVec(c, e, duration, start_ts, end_ts, now) ==
    IF ~e.ok THEN Result(c, LastOrS1(c), "NOVEC")
    ELSE AssignAfterBoot(AssignBoot(c, e.v, start_ts, end_ts, now), e.v, duration, now)

\* VarKClustering.assign(wav, start_ts, end_ts), reading the clock at `now`
Assign(c, wavLen, emb, start_ts, end_ts, now) ==
    IF wavLen = 0 THEN Result(c, LastOrS1(c), "EMPTY")
    ELSE AssignVec(c, EmbedWav(wavLen, emb), AssignDuration(wavLen, start_ts, end_ts),
                   start_ts, end_ts, now)

(***************************************************************************)
(* StreamingDiarizer: the in-segment speaker tracker (M4_DIAR_INTRASEG).   *)
(* Times in ms, similarities scaled by SimScale.                           *)
(***************************************************************************)
StreamEma == 1200
StreamMaxSpk == 3
StreamMarginStrong == 1000
StreamWeakMargin == 500
LongSwitchMs == 1800
WeakReqMs == 1000
WeakReqN == 2
StreamMinSwitchMs == 600
CutBacktraceMs == 450
CutCooldownMs == 2500
SimNewThreshold == SimBase - 800
\* "self.last_cut_ts = -1e9": long before any reading of the clock
NeverCut == 0 - 1000000000

\* StreamingDiarizer.__init__
NewTracker ==
    [ centroids |-> <<>>, last_cut_ts |-> NeverCut, last_label |-> None,
      opp_streak |-> 0, weak_hit |-> 0, weak_hit_count |-> 0 ]

\* StreamingDiarizer._embed: None (ok = FALSE), or the l2-normalised vector
StreamEmbed(wavLen, emb) ==
    IF wavLen = 0 \/ emb.kind # "vec" THEN [ok |-> FALSE, v |-> <<0, 0>>]
    ELSE [ok |-> TRUE, v |-> l2_norm(emb.v)]

\* alpha of StreamingDiarizer._update_centroid, scaled by SimScale
StreamAlpha(conf) == Max(500, Min(5000, RDiv(StreamEma * Max(2000, conf), SimScale)))

\* StreamingDiarizer._update_centroid
StreamUpdateCentroid(cents, label, vec, conf) ==
    IF ~HasKey(cents, label) THEN Put(cents, label, vec)
    ELSE Put(cents, label,
             l2_norm(<<RDiv((SimScale - StreamAlpha(conf)) * Get(cents, label)[1]
                            + StreamAlpha(conf) * vec[1], SimScale),
                       RDiv((SimScale - StreamAlpha(conf)) * Get(cents, label)[2]
                            + StreamAlpha(conf) * vec[2], SimScale)>>))

\* the similarities of vec to the centroids, in dict order
StreamSims(cents, vec) == Seq1([i \in 1..Len(cents) |-> cosine(vec, cents[i][2])])

\* StreamingDiarizer._ensure_label: the centroids it leaves behind
EnsureLabel(cents, vec, simv) ==
    IF Len(cents) = 0 THEN Put(cents, "S1", vec)
    ELSE IF simv[ArgMaxIdx(simv)] < SimNewThreshold /\ Len(cents) < StreamMaxSpk
         THEN Put(cents, SLabel(Len(cents) + 1), vec)
    ELSE cents

\* StreamingDiarizer.notify_segment_end
NotifySegmentEnd(t, label) ==
    [t EXCEPT !.last_label = IF label # None THEN label ELSE @,
              !.opp_streak = 0, !.weak_hit = 0, !.weak_hit_count = 0]

\* step, lines 464-474: the streak counters
StepStreaks(t, best, margin, target, hop) ==
    IF target # None /\ best # target THEN
        [t EXCEPT !.opp_streak = @ + hop,
                  !.weak_hit = IF margin >= StreamWeakMargin THEN @ + hop ELSE @,
                  !.weak_hit_count = IF margin >= StreamWeakMargin THEN @ + 1 ELSE @]
    ELSE
        [t EXCEPT !.opp_streak = Max(0, @ - hop),
                  !.weak_hit = Max(0, @ - hop \div 2),
                  !.weak_hit_count = IF @ > 0 THEN @ - 1 ELSE @]

\* the rules of step without the weak-accum rule
StepRule_NoWeak(t, margin, seg_dur) ==
    IF margin >= StreamMarginStrong /\ seg_dur >= StreamMinSwitchMs THEN "margin-strong"
    ELSE IF t.opp_streak >= LongSwitchMs /\ seg_dur >= StreamMinSwitchMs THEN "long-dominance"
    ELSE ""

\* step, lines 477-488: the rule that asks for a cut ("" when none does)
StepRule(t, margin, seg_dur) ==
    IF margin >= StreamMarginStrong /\ seg_dur >= StreamMinSwitchMs THEN "margin-strong"
    ELSE IF t.opp_streak >= LongSwitchMs /\ seg_dur >= StreamMinSwitchMs THEN "long-dominance"
    ELSE IF t.weak_hit_count >= WeakReqN /\ t.weak_hit >= WeakReqMs
            /\ seg_dur >= StreamMinSwitchMs THEN "weak-accum"
    ELSE ""

\* the DiarDecision of step without the cooldown
StepDecide_NoCooldown(t, best, current_label, rule, now) ==
    IF rule # ""
    THEN [t |-> [t EXCEPT !.last_cut_ts = now, !.last_label = best,
                          !.opp_streak = 0, !.weak_hit = 0, !.weak_hit_count = 0],
          some |-> TRUE, label |-> best, cut |-> TRUE, reason |-> rule]
    ELSE [t |-> [t EXCEPT !.last_label = IF current_label # None THEN current_label ELSE best],
          some |-> TRUE, label |-> best, cut |-> FALSE, reason |-> ""]

\* step, lines 490-512: the cooldown, and the DiarDecision
StepDecide(t, best, current_label, rule, now) ==
    IF rule # "" /\ ~((now - t.last_cut_ts) < CutCooldownMs)
    THEN [t |-> [t EXCEPT !.last_cut_ts = now, !.last_label = best,
                          !.opp_streak = 0, !.weak_hit = 0, !.weak_hit_count = 0],
          some |-> TRUE, label |-> best, cut |-> TRUE, reason |-> rule]
    ELSE [t |-> [t EXCEPT !.last_label = IF current_label # None THEN current_label ELSE best],
          some |-> TRUE, label |-> best, cut |-> FALSE, reason |-> ""]

\* step, lines 459-512, with best_label and margin known
StepRanked(t, best, margin, current_label, seg_dur, hop, now) ==
    StepDecide(StepStreaks(t, best, margin,
                           IF current_label # None THEN current_label ELSE t.last_label, hop),
               best, current_label,
               StepRule(StepStreaks(t, best, margin,
                                    IF current_label # None THEN current_label
                                    ELSE t.last_label, hop),
                        margin, seg_dur),
               now)

\* step, lines 453-462: the scores against the centroids, the best one updated
StepScored(t, vec, simv, bi, current_label, seg_dur, hop, now) ==
    StepRanked([t EXCEPT !.centroids = StreamUpdateCentroid(@, t.centroids[bi][1], vec, simv[bi]),
                         !.last_label = IF @ = None THEN t.centroids[bi][1] ELSE @],
               t.centroids[bi][1], simv[bi] - MaxExcept(simv, bi, -SimScale),
               current_label, seg_dur, hop, now)

StepSims(t, vec, simv, current_label, seg_dur, hop, now) ==
    StepScored(t, vec, simv, ArgMaxIdx(simv), current_label, seg_dur, hop, now)

StepEnsured(t, vec, current_label, seg_dur, hop, now) ==
    StepSims(t, vec, StreamSims(t.centroids, vec), current_label, seg_dur, hop, now)

StepVec(t, e, current_label, seg_dur, hop, now) ==
    IF ~e.ok THEN [t |-> t, some |-> FALSE, label |-> None, cut |-> FALSE, reason |-> ""]
    ELSE StepEnsured([t EXCEPT !.centroids = EnsureLabel(@, e.v, StreamSims(@, e.v))],
                     e.v, current_label, seg_dur, hop, now)

\* StreamingDiarizer.step(wav, current_label, seg_dur_sec, hop_sec), reading the
\* clock at `now`: [t, some, label, cut, reason], some = FALSE for None
StreamStep(t, wavLen, emb, current_label, seg_dur, hop, now) ==
    StepVec(t, StreamEmbed(wavLen, emb), current_label, seg_dur, hop, now)

(***************************************************************************)
(* Audio arrays.  A float32 array of samples is kept as the sequence of    *)
(* the intervals <<b, e>> of stream offsets it holds, b < e, adjacent      *)
(* intervals merged: what np.concatenate and slicing do to the content.    *)
(***************************************************************************)
RECURSIVE ASize(_)
ASize(a) == IF Len(a) = 0 THEN 0 ELSE (a[1][2] - a[1][1]) + ASize(Tail(a))

\* np.concatenate([a, b])
AConcat(a, b) ==
    IF Len(a) = 0 THEN b
    ELSE IF Len(b) = 0 THEN a
    ELSE IF a[Len(a)][2] = b[1][1]
         THEN SubSeq(a, 1, Len(a) - 1) \o <<<<a[Len(a)][1], b[1][2]>>>> \o Tail(b)
         ELSE a \o b

\* a[n:], n >= 0
RECURSIVE ADrop(_, _)
ADrop(a, n) ==
    IF n <= 0 \/ Len(a) = 0 THEN a
    ELSE IF a[1][2] - a[1][1] <= n THEN ADrop(Tail(a), n - (a[1][2] - a[1][1]))
    ELSE <<<<a[1][1] + n, a[1][2]>>>> \o Tail(a)

\* a[:n], n >= 0
RECURSIVE ATake(_, _)
ATake(a, n) ==
    IF n <= 0 \/ Len(a) = 0 THEN <<>>
    ELSE IF a[1][2] - a[1][1] <= n
         THEN <<a[1]>> \o ATake(Tail(a), n - (a[1][2] - a[1][1]))
    ELSE <<<<a[1][1], a[1][1] + n>>>>

\* a[beg:end], 0 <= beg
ASlice(a, beg, end) == ATake(ADrop(a, beg), end - beg)

\* a[-n:], n > 0
ALast(a, n) == ADrop(a, ASize(a) - n)

\* np.concatenate(list of arrays)
RECURSIVE AConcatAll(_)
AConcatAll(arrs) ==
    IF Len(arrs) = 0 THEN <<>> ELSE AConcat(arrs[1], AConcatAll(Tail(arrs)))

\* "for idx in range(0, tail.size, block): tail[idx : idx + block]"
RECURSIVE APieces(_, _)
APieces(a, n) ==
    IF Len(a) = 0 THEN <<>> ELSE <<ATake(a, n)>> \o APieces(ADrop(a, n), n)

(***************************************************************************)
(* RealtimeASR: configuration (the defaults of _setup_vad, _setup_segments *)
(* and _setup_live_diar_stream, with M4_ASR_BLOCK=800: 50 ms frames).    *)
(* Times inside the engine are stream offsets in samples.                  *)
(***************************************************************************)
Sr == 16000
Block == 800
MinSpeechMs == 160
HangMs == 300
BridgeMs == 0
PrerollMs == 240
TailCarryMs == 300
MinTurnMs == 800
MinAsrMs == 1000
SplitMinMs == 1200
SplitMinCover == 85
DominantMinMs == 800
DiarHopMs == 500
IntraHopMs == 250
RetentionMs == 240000
RecentMaxLen == 64
CacheTolMs == 20

\* int(round(seconds * sr))
Samples(ms) == RDiv(ms * (Sr \div 100), 10)
FrameMs == (Block * 1000) \div Sr

hang_start_frames == Max(1, RDiv(MinSpeechMs, FrameMs))
hang_stop_frames == Max(hang_start_frames, RDiv(HangMs, FrameMs))
bridge_frames == RDiv(BridgeMs, FrameMs)
prepad_frames == Max(1, RDiv(PrerollMs, FrameMs))
tail_keep_samples == Samples(TailCarryMs)
spk_split_min_samples == Samples(SplitMinMs)

\* no segment is too short to be emitted
TooShort_Never(size) == FALSE

\* "dur < max(0.1, self.min_turn_sec * 0.5)", in samples
TooShort(size) == size * 1000 < Max(100, MinTurnMs \div 2) * Sr

NoSample == 0 - 1

\* a freshly constructed RealtimeASR under configuration cfg
\*   cfg.vad_enabled, cfg.max_turn_ms, cfg.live_diar, cfg.intraseg, cfg.win_ms
NewAsr(cfg, now) ==
    [ cfg |-> cfg,
      residual |-> <<>>, processed |-> 0,
      pre |-> <<>>, seg |-> <<>>, seg_start |-> NoSample,
      in_speech |-> FALSE, start_cnt |-> 0, stop_cnt |-> 0, gap_cnt |-> 0,
      queue |-> <<>>,
      live |-> IF cfg.live_diar THEN NewClustering("auto", 3, now) ELSE None,
      timeline |-> <<>>, recent |-> <<>>, diar_last_label |-> None,
      diar_buf_start |-> 0, diar_buf_size |-> 0, diar_next |-> 0, diar_total |-> 0,
      current_speaker |-> None, since_embed |-> 0, trk |-> NewTracker,
      \* where control is: "idle", or inside a provider call that has not returned
      pc |-> "idle",
      \* history: the frames handed to _process_frame, the queue appends, and
      \* of the segment being closed the reason, the interval [start, end) and
      \* what the decoder gave for it
      frames |-> <<>>, emitted |-> <<>>, why |-> "", span |-> <<>>, heard |-> "" ]

diar_win_samples(a) == Max(1, Samples(Max(200, a.cfg.win_ms)))
diar_hop_samples == Max(1, Samples(Max(100, DiarHopMs)))
diar_retention_samples(a) == Max(diar_win_samples(a), Samples(a.cfg.retention_ms))
\* _setup_intraseg: int(win * sr), and max(block, int(hop * sr))
emb_win_samples(a) == a.cfg.win_ms * (Sr \div 1000)
emb_hop_samples == Max(Block, IntraHopMs * (Sr \div 1000))

(***************************************************************************)
(* RealtimeASR: the live diarization timeline                              *)
(***************************************************************************)
VoiceA == <<1000, 0>>
VoiceB == <<0, 1000>>
\* the stream offset at which the second voice takes over, when there are two
VoiceChange == 24000
\* the length of a turn when the two voices alternate: 3 s
TurnSamples == 3 * Sr
\* who is speaking at stream offset s when the two voices alternate
TurnVoice(s) == IF (s \div TurnSamples) % 2 = 0 THEN VoiceA ELSE VoiceB

\* what SpeakerEmbedding.embed gives for the window [start, end) of the stream
WindowEmb(cfg, start, end) ==
    IF cfg.voices = "none" THEN EmbNone
    ELSE IF cfg.voices = "raise" THEN EmbRaise
    ELSE IF cfg.voices = "nonfinite" THEN EmbNonFinite
    ELSE IF cfg.voices = "two" /\ (start + end) \div 2 >= VoiceChange THEN EmbVec(VoiceB)
    ELSE IF cfg.voices = "alt" THEN EmbVec(TurnVoice((start + end) \div 2))
    ELSE EmbVec(VoiceA)

ToMs(samples) == RDiv(samples * 1000, Sr)

\* the next window placed one window length after the last
FeedWindow_WinStep(a, r) ==
    [a EXCEPT !.live = r.clu,
              !.timeline = Append(@, <<a.diar_next, a.diar_next + diar_win_samples(a), r.label>>),
              !.diar_last_label = r.label,
              !.diar_next = @ + diar_win_samples(a)]

\* _feed_live_diar_chunk, lines 287-293: one window handed to the diarizer
FeedWindow(a, r) ==
    [a EXCEPT !.live = r.clu,
              !.timeline = Append(@, <<a.diar_next, a.diar_next + diar_win_samples(a), r.label>>),
              !.diar_last_label = r.label,
              !.diar_next = @ + diar_hop_samples]

FeedAssign(a, now) ==
    FeedWindow(a, Assign(a.live, diar_win_samples(a),
                         WindowEmb(a.cfg, a.diar_next, a.diar_next + diar_win_samples(a)),
                         ToMs(a.diar_next), ToMs(a.diar_next + diar_win_samples(a)), now))

\* _feed_live_diar_chunk, lines 279-293: the while loop
RECURSIVE FeedLoop(_, _)
FeedLoop(a, now) ==
    IF a.diar_next + diar_win_samples(a) > a.diar_buf_start + a.diar_buf_size THEN a
    ELSE IF a.diar_next < a.diar_buf_start THEN
        IF a.diar_next + diar_win_samples(a) > a.diar_next + a.diar_buf_size
        THEN [a EXCEPT !.diar_buf_start = a.diar_next]
        ELSE FeedLoop(FeedAssign([a EXCEPT !.diar_buf_start = a.diar_next], now), now)
    ELSE IF a.diar_buf_size - (a.diar_next - a.diar_buf_start) < diar_win_samples(a) THEN a
    ELSE FeedLoop(FeedAssign(a, now), now)

\* _shrink_diar_buffer
ShrinkDiarBuffer(a) ==
    LET keep_from == Max(0, a.diar_next - diar_win_samples(a))
        drop == keep_from - a.diar_buf_start
    IN  IF a.diar_buf_size = 0 \/ drop <= 0 THEN a
        ELSE IF drop >= a.diar_buf_size
             THEN [a EXCEPT !.diar_buf_size = 0, !.diar_buf_start = keep_from]
        ELSE [a EXCEPT !.diar_buf_size = @ - drop, !.diar_buf_start = @ + drop]

RECURSIVE PopWhileOlder(_, _)
PopWhileOlder(tl, min_time) ==
    IF Len(tl) > 0 /\ tl[1][2] < min_time THEN PopWhileOlder(Tail(tl), min_time) ELSE tl

\* the timeline never trimmed
ShrinkDiarTimeline_Never(a) == a

\* _shrink_diar_timeline
ShrinkDiarTimeline(a) ==
    [a EXCEPT !.timeline = PopWhileOlder(@, a.diar_next - diar_retention_samples(a))]

\* _feed_live_diar_chunk(chunk), chunk of n samples
FeedLiveDiarChunk(a, n, now) ==
    IF ~a.cfg.live_diar \/ n = 0 THEN a
    ELSE ShrinkDiarTimeline(ShrinkDiarBuffer(FeedLoop(
            [a EXCEPT !.diar_buf_start = IF a.diar_buf_size = 0 THEN a.diar_total ELSE @,
                      !.diar_buf_size = @ + n,
                      !.diar_total = @ + n], now)))

\* the overlap of timeline window w with [t0, t1)
Overlap(w, t0, t1) == Min(t1, w[2]) - Max(t0, w[1])

\* _majority_speaker_from_timeline: the loop filling totals
RECURSIVE MajorityTotals(_, _, _, _, _)
MajorityTotals(tl, i, t0, t1, totals) ==
    IF i > Len(tl) THEN totals
    ELSE IF tl[i][2] <= t0 THEN MajorityTotals(tl, i + 1, t0, t1, totals)
    ELSE IF tl[i][1] >= t1 THEN totals
    ELSE IF Overlap(tl[i], t0, t1) <= 0 THEN MajorityTotals(tl, i + 1, t0, t1, totals)
    ELSE MajorityTotals(tl, i + 1, t0, t1,
                        Put(totals, tl[i][3], GetOr(totals, tl[i][3], 0) + Overlap(tl[i], t0, t1)))

FirstMaxKey(totals) ==
    totals[ArgMaxIdx([i \in 1..Len(totals) |-> totals[i][2]])][1]

MajorityOf(totals) == IF Len(totals) = 0 THEN None ELSE FirstMaxKey(totals)

\* _majority_speaker_from_timeline
MajoritySpeakerFromTimeline(a, t0, t1) ==
    IF Len(a.timeline) = 0 THEN None
    ELSE MajorityOf(MajorityTotals(a.timeline, 1, t0, t1, <<>>))

\* _dominant_block_speaker: the loop; st = [best, best_len, cur, cur_len]
DominantKeep(st) ==
    IF st.cur # None /\ st.cur_len > st.best_len
    THEN [st EXCEPT !.best = st.cur, !.best_len = st.cur_len] ELSE st

RECURSIVE DominantLoop(_, _, _, _, _)
DominantLoop(tl, i, t0, t1, st) ==
    IF i > Len(tl) THEN st
    ELSE IF tl[i][2] <= t0 THEN DominantLoop(tl, i + 1, t0, t1, st)
    ELSE IF tl[i][1] >= t1 THEN st
    ELSE IF Overlap(tl[i], t0, t1) <= 0 THEN DominantLoop(tl, i + 1, t0, t1, st)
    ELSE IF tl[i][3] = st.cur
         THEN DominantLoop(tl, i + 1, t0, t1,
                           [st EXCEPT !.cur_len = @ + Overlap(tl[i], t0, t1)])
    ELSE DominantLoop(tl, i + 1, t0, t1,
                      [DominantKeep(st) EXCEPT !.cur = tl[i][3],
                                               !.cur_len = Overlap(tl[i], t0, t1)])

DominantOf(st) ==
    IF st.best # None /\ st.best_len >= Samples(DominantMinMs) THEN st.best ELSE None

\* _dominant_block_speaker
DominantBlockSpeaker(a, t0, t1) ==
    IF Len(a.timeline) = 0 THEN None
    ELSE DominantOf(DominantKeep(DominantLoop(a.timeline, 1, t0, t1,
            [best |-> None, best_len |-> 0, cur |-> None, cur_len |-> 0])))

Abs(x) == IF x < 0 THEN -x ELSE x

\* _lookup_cached_speaker: the most recent cached segment within 0.02 s
LookupCachedSpeaker(recent, s, e) ==
    LET hits == {i \in 1..Len(recent) :
                    /\ Abs(recent[i][1] - s) < Samples(CacheTolMs)
                    /\ Abs(recent[i][2] - e) < Samples(CacheTolMs)}
    IN  IF hits = {} THEN None
        ELSE recent[CHOOSE i \in hits : \A j \in hits : j <= i][3]

\* _cache_segment_speaker: deque(maxlen=64).append
CacheSegmentSpeaker(recent, s, e, label) ==
    IF Len(recent) >= RecentMaxLen THEN Append(Tail(recent), <<s, e, label>>)
    ELSE Append(recent, <<s, e, label>>)

Or3(x, y, z) == IF x # None THEN x ELSE IF y # None THEN y ELSE z

\* majority_speaker(start_s, end_s)
MajoritySpeaker(a, s, e) ==
    IF LookupCachedSpeaker(a.recent, s, e) # None THEN LookupCachedSpeaker(a.recent, s, e)
    ELSE IF a.cfg.live_diar
         THEN Or3(MajoritySpeakerFromTimeline(a, s, e), DominantBlockSpeaker(a, s, e),
                  a.diar_last_label)
    ELSE a.current_speaker

\* _infer_segment_speaker
InferSegmentSpeaker(a, s, e) == Or3(MajoritySpeaker(a, s, e), a.current_speaker, "S1")

(***************************************************************************)
(* RealtimeASR: splitting a closed segment by speaker                      *)
(***************************************************************************)
\* _segment_diar_windows: the timeline windows clipped to [t0, t1)
RECURSIVE SegmentDiarWindows(_, _, _, _)
SegmentDiarWindows(tl, i, t0, t1) ==
    IF i > Len(tl) THEN <<>>
    ELSE IF tl[i][2] <= t0 THEN SegmentDiarWindows(tl, i + 1, t0, t1)
    ELSE IF tl[i][1] >= t1 THEN <<>>
    ELSE IF Min(t1, tl[i][2]) <= Max(t0, tl[i][1]) THEN SegmentDiarWindows(tl, i + 1, t0, t1)
    ELSE <<<<Max(t0, tl[i][1]), Min(t1, tl[i][2]), tl[i][3]>>>>
            \o SegmentDiarWindows(tl, i + 1, t0, t1)

\* list.sort(key=lambda item: item[0]): stable, by start
RECURSIVE InsertByStart(_, _)
InsertByStart(sorted, w) ==
    IF Len(sorted) = 0 THEN <<w>>
    ELSE IF sorted[Len(sorted)][1] <= w[1] THEN Append(sorted, w)
    ELSE Append(InsertByStart(SubSeq(sorted, 1, Len(sorted) - 1), w), sorted[Len(sorted)])

RECURSIVE SortByStart(_)
SortByStart(wins) ==
    IF Len(wins) = 0 THEN <<>>
    ELSE InsertByStart(SortByStart(SubSeq(wins, 1, Len(wins) - 1)), wins[Len(wins)])

\* _speaker_spans_for_segment, lines 418-426: runs of windows with one label
RECURSIVE MergeRuns(_, _, _)
MergeRuns(wins, i, cur) ==
    IF i > Len(wins) THEN <<cur>>
    ELSE IF wins[i][3] = cur[3] /\ wins[i][1] <= cur[2] + Samples(1)
         THEN MergeRuns(wins, i + 1, <<cur[1], Max(cur[2], wins[i][2]), cur[3]>>)
    ELSE <<cur>> \o MergeRuns(wins, i + 1, wins[i])

\* lines 427-433: the spans clipped to the segment, empty ones dropped
ClipSpans(spans, t0, t1) ==
    SelectSeq([i \in 1..Len(spans) |->
                  <<Max(t0, spans[i][1]), Min(t1, spans[i][2]), spans[i][3]>>],
              LAMBDA s : s[2] - s[1] > 0)

RECURSIVE SpanCoverage(_)
SpanCoverage(spans) ==
    IF Len(spans) = 0 THEN 0 ELSE (spans[1][2] - spans[1][1]) + SpanCoverage(Tail(spans))

\* lines 442-447: the first span starts and the last span ends with the segment
StretchEnds(c, t0, t1) ==
    [i \in 1..Len(c) |->
        <<IF i = 1 /\ c[i][1] > t0 THEN t0 ELSE c[i][1],
          IF i = Len(c) /\ c[i][2] < t1 THEN t1 ELSE c[i][2],
          c[i][3]>>]

\* lines 448-456: a gap before a span is given to the span before it
RECURSIVE CloseGaps(_, _, _)
CloseGaps(c, i, normalized) ==
    IF i > Len(c) THEN normalized
    ELSE IF Len(normalized) = 0 THEN CloseGaps(c, i + 1, <<c[i]>>)
    ELSE IF c[i][1] > normalized[Len(normalized)][2]
         THEN CloseGaps(c, i + 1,
                        Append([normalized EXCEPT ![Len(normalized)][2] = c[i][1]], c[i]))
    ELSE CloseGaps(c, i + 1, Append(normalized, c[i]))

\* lines 434-456, given the clipped spans
SpansFromClipped(clipped, t0, t1) ==
    IF Len(clipped) <= 1 THEN <<>>
    ELSE IF \E i \in 1..Len(clipped) : clipped[i][2] - clipped[i][1] < spk_split_min_samples
         THEN <<>>
    ELSE IF SpanCoverage(clipped) * 100 < Max(t1 - t0, 1) * SplitMinCover THEN <<>>
    ELSE CloseGaps(StretchEnds(clipped, t0, t1), 1, <<>>)

SpansFromWindows(windows, t0, t1) ==
    IF Len(windows) = 0 THEN <<>>
    ELSE IF Cardinality({windows[i][3] : i \in 1..Len(windows)}) <= 1 THEN <<>>
    ELSE SpansFromClipped(ClipSpans(MergeRuns(windows, 2, windows[1]), t0, t1), t0, t1)

\* _speaker_spans_for_segment
SpeakerSpansForSegment(a, t0, t1) ==
    SpansFromWindows(SortByStart(SegmentDiarWindows(a.timeline, 1, t0, t1)), t0, t1)

\* the chunks of the spans, the latest span first
RECURSIVE SplitChunks_NewestFirst(_, _, _, _, _)
SplitChunks_NewestFirst(audio, spans, i, t0, t1) ==
    IF i > Len(spans) THEN <<>>
    ELSE SplitChunks_NewestFirst(audio, spans, i + 1, t0, t1)
         \o <<[audio |-> ASlice(audio, Max(0, spans[i][1] - t0),
                                Min(ASize(audio), spans[i][2] - t0)),
               start |-> spans[i][1], end |-> spans[i][2], label |-> spans[i][3]]>>

\* _split_segment_audio, lines 468-479: the chunk of one span, if any
RECURSIVE SplitChunks(_, _, _, _, _)
SplitChunks(audio, spans, i, t0, t1) ==
    IF i > Len(spans) THEN <<>>
    ELSE LET beg == Max(0, spans[i][1] - t0)
             end == Min(t1 - t0, spans[i][2] - t0)
         IN  IF end <= beg \/ beg >= ASize(audio)
             THEN SplitChunks(audio, spans, i + 1, t0, t1)
             ELSE <<[audio |-> ASlice(audio, beg, Min(end, ASize(audio))),
                     start |-> spans[i][1], end |-> spans[i][2], label |-> spans[i][3]]>>
                    \o SplitChunks(audio, spans, i + 1, t0, t1)

AtLeastTwo(chunks) == IF Len(chunks) <= 1 THEN <<>> ELSE chunks

\* _split_segment_audio
SplitSegmentAudio(a, audio, t0, t1) ==
    AtLeastTwo(SplitChunks(audio, SpeakerSpansForSegment(a, t0, t1), 1, t0, t1))

(***************************************************************************)
(* RealtimeASR: closing a segment                                          *)
(***************************************************************************)
\* _reset_segment_state leaving the gate as it is
ResetSegmentState_GateKept(a, tail) ==
    [a EXCEPT !.seg = <<>>, !.seg_start = NoSample,
              !.start_cnt = 0, !.stop_cnt = 0, !.gap_cnt = 0,
              !.current_speaker = None, !.since_embed = 0,
              !.pre = IF ASize(tail) > prepad_frames * Block
                      THEN APieces(ALast(tail, prepad_frames * Block), Block)
                      ELSE APieces(tail, Block)]

\* _reset_segment_state(tail)
ResetSegmentState(a, tail) ==
    [a EXCEPT !.seg = <<>>, !.seg_start = NoSample,
              !.in_speech = FALSE, !.start_cnt = 0, !.stop_cnt = 0, !.gap_cnt = 0,
              !.current_speaker = None, !.since_embed = 0,
              !.pre = IF ASize(tail) > prepad_frames * Block
                      THEN APieces(ALast(tail, prepad_frames * Block), Block)
                      ELSE APieces(tail, Block)]

\* _emit_segment_chunk, lines 497-503, once the decoder has given a text
EmitQueued(a, audio, start, end, text, speaker, reason) ==
    [a EXCEPT !.recent = CacheSegmentSpeaker(@, start, end, speaker),
              !.queue = Append(@, [start |-> start, end |-> end, text |-> text,
                                   audio |-> audio]),
              !.emitted = Append(@, [start |-> start, end |-> end, text |-> text,
                                     audio |-> audio, label |-> speaker,
                                     reason |-> reason, seg |-> a.span])]

\* _emit_segment_chunk queueing the entry whatever the text is
EmitSegmentChunk_QueuesBlank(a, audio, start, end, hint, reason, dec) ==
    IF dec = "hang" THEN [a |-> [a EXCEPT !.pc = "decode"], ok |-> FALSE]
    ELSE IF dec = "raise" THEN [a |-> [a EXCEPT !.pc = "raised"], ok |-> FALSE]
    ELSE [a |-> EmitQueued(a, audio, start, end, IF dec = "empty" THEN "" ELSE dec,
                           IF hint # None THEN hint ELSE InferSegmentSpeaker(a, start, end),
                           reason),
          ok |-> TRUE]

\* _emit_segment_chunk: [a, ok]; dec is what recognizer.decode_stream does: it
\* never returns ("hang"), raises ("raise"), gives a blank text ("empty"), or
\* gives the text dec
EmitSegmentChunk(a, audio, start, end, hint, reason, dec) ==
    IF dec = "hang" THEN [a |-> [a EXCEPT !.pc = "decode"], ok |-> FALSE]
    ELSE IF dec = "raise" THEN [a |-> [a EXCEPT !.pc = "raised"], ok |-> FALSE]
    ELSE IF dec = "empty" THEN [a |-> a, ok |-> FALSE]
    ELSE [a |-> EmitQueued(a, audio, start, end, dec,
                           IF hint # None THEN hint ELSE InferSegmentSpeaker(a, start, end),
                           reason),
          ok |-> TRUE]

\* _finalize_segment, lines 632-637: "emitted = self._emit_segment_chunk(...) or emitted"
OrEmitted(emitted, r) == [a |-> r.a, ok |-> r.ok \/ emitted]

RECURSIVE EmitChunks(_, _, _, _, _)
EmitChunks(r, chunks, i, reason, dec) ==
    IF i > Len(chunks) \/ r.a.pc # "idle" THEN r
    ELSE EmitChunks(OrEmitted(r.ok, EmitSegmentChunk(r.a, chunks[i].audio, chunks[i].start,
                                                    chunks[i].end, chunks[i].label,
                                                    reason, dec)),
                    chunks, i + 1, reason, dec)

\* _finalize_segment, lines 651-654: the tail carried into the pre-roll
CarryTail(a, raw, remainder) ==
    IF ASize(remainder) < tail_keep_samples /\ ASize(raw) >= tail_keep_samples
    THEN ResetSegmentState(a, ALast(raw, tail_keep_samples))
    ELSE ResetSegmentState(a, remainder)

\* _finalize_segment, lines 644-654: after the emission
FinalizeTail(r, raw, remainder) ==
    IF r.a.pc # "idle" THEN r.a
    ELSE IF ~r.ok THEN ResetSegmentState(r.a, remainder)
    ELSE IF r.a.cfg.intraseg /\ r.a.current_speaker # None
         THEN CarryTail([r.a EXCEPT !.trk = NotifySegmentEnd(@, r.a.current_speaker)],
                        raw, remainder)
    ELSE CarryTail(r.a, raw, remainder)

\* _finalize_segment, lines 632-639: split chunks, or the segment as one
FinalizeEmit(a, raw, start, end, chunks, reason, dec) ==
    IF Len(chunks) > 0
    THEN EmitChunks([a |-> a, ok |-> FALSE], chunks, 1, reason \o "-split", dec)
    ELSE EmitSegmentChunk(a, raw, start, end, None, reason, dec)

\* history: the interval of the segment being closed, and what the decoder
\* gives for it
Spanning(a, start, end, dec) == [a EXCEPT !.span = <<start, end>>, !.heard = dec]

\* _finalize_segment, lines 627-654: from the start sample on
FinalizeFrom(a, raw, remainder, start, reason, dec) ==
    FinalizeTail(FinalizeEmit(Spanning(a, start, start + ASize(raw), dec), raw, start,
                              start + ASize(raw),
                              SplitSegmentAudio(a, raw, start, start + ASize(raw)),
                              reason, dec),
                 raw, remainder)

\* "self._segment_start_sample or max(0, self._processed_samples - raw.size)"
StartSample(a, raw) ==
    IF a.seg_start # NoSample /\ a.seg_start # 0 THEN a.seg_start
    ELSE Max(0, a.processed - ASize(raw))

\* _finalize_segment, lines 621-654: raw and remainder known
FinalizeCut(a, raw, remainder, reason, dec) ==
    IF TooShort(ASize(raw)) THEN ResetSegmentState(a, AConcat(raw, remainder))
    ELSE FinalizeFrom(a, raw, remainder, StartSample(a, raw), reason, dec)

\* history: the reason the open segment was closed for
Closing(a, reason) == [a EXCEPT !.why = reason]

\* _finalize_segment(cut_backtrace_sec, reason), the backtrace in samples
FinalizeSegment(a, cut_samples, reason, dec) ==
    IF ASize(a.seg) = 0 THEN a
    ELSE IF 0 < cut_samples /\ cut_samples < ASize(a.seg)
         THEN FinalizeCut(Closing(a, reason), ATake(a.seg, ASize(a.seg) - cut_samples),
                          ADrop(a.seg, ASize(a.seg) - cut_samples), reason, dec)
    ELSE IF cut_samples >= ASize(a.seg)
         THEN FinalizeCut(Closing(a, reason), <<>>, a.seg, reason, dec)
    ELSE FinalizeCut(Closing(a, reason), a.seg, <<>>, reason, dec)

(***************************************************************************)
(* RealtimeASR: frames and chunks                                          *)
(***************************************************************************)
\* "self._current_segment_duration() >= self.max_turn_sec"
ReachedMaxTurn(a) == ASize(a.seg) * 1000 >= a.cfg.max_turn_ms * Sr

\* _append_pre_audio on a deque without maxlen
AppendPreAudio_Unbounded(a, frame) == [a EXCEPT !.pre = Append(@, frame)]

\* _append_pre_audio: deque(maxlen=prepad_frames).append
AppendPreAudio(a, frame) ==
    [a EXCEPT !.pre = IF Len(@) >= prepad_frames THEN Append(Tail(@), frame)
                      ELSE Append(@, frame)]

\* _seed_segment_from_pre
SeedSegmentFromPre(a) ==
    [a EXCEPT !.seg = AConcatAll(a.pre),
              !.seg_start = Max(0, a.processed - ASize(AConcatAll(a.pre))),
              !.pre = <<>>, !.since_embed = 0]

\* _append_segment_frame
AppendSegmentFrame(a, frame) ==
    [a EXCEPT !.seg = AConcat(@, frame),
              !.since_embed = IF a.cfg.intraseg THEN @ + ASize(frame) ELSE @]

\* _maybe_run_intraseg, lines 709-712: the segment cut where the voice changed
IntrasegCut(a, label) ==
    IF a.pc # "idle" THEN a
    ELSE [a EXCEPT !.trk = NotifySegmentEnd(@, label), !.current_speaker = label]

\* _maybe_run_intraseg, lines 705-712: the decision d of the tracker applied
IntrasegApply(a, d, dec) ==
    IF ~d.some THEN a
    ELSE IF ~d.cut THEN [a EXCEPT !.trk = d.t, !.current_speaker = d.label]
    ELSE IntrasegCut(FinalizeSegment([a EXCEPT !.trk = d.t, !.current_speaker = d.label],
                                     Samples(CutBacktraceMs), d.reason, dec),
                     d.label)

\* _collect_recent_audio(emb_win_samples) and the embedding of that window
IntrasegEmb(a, pcm) ==
    IF ASize(pcm) = 0 THEN EmbNone
    ELSE WindowEmb(a.cfg, pcm[1][1], pcm[Len(pcm)][2])

\* _maybe_run_intraseg
MaybeRunIntraseg(a, dec, now) ==
    IF ~a.cfg.intraseg THEN a
    ELSE IF ASize(a.seg) * 1000 < Max(MinTurnMs \div 2, (a.cfg.win_ms * 8) \div 10) * Sr THEN a
    ELSE IF a.since_embed < emb_hop_samples THEN a
    ELSE IF ASize(a.seg) < emb_win_samples(a) THEN a
    ELSE IntrasegApply([a EXCEPT !.since_embed = 0],
                       StreamStep(a.trk, emb_win_samples(a),
                                  IntrasegEmb(a, ALast(a.seg, emb_win_samples(a))),
                                  a.current_speaker, ToMs(ASize(a.seg)), IntraHopMs, now),
                       dec)

\* _process_frame, lines 753-759: VAD disabled, the frame appended
VadOffFrame(a, dec, now) ==
    IF a.cfg.max_turn_ms > 0 /\ ReachedMaxTurn(a)
    THEN FinalizeSegment(a, 0, "max-turn", dec)
    ELSE MaybeRunIntraseg(a, dec, now)

\* the start counter counting every frame, speech or not
IdleFrame_CountsAll(a, speech) ==
    IF a.start_cnt + 1 >= hang_start_frames
    THEN SeedSegmentFromPre([a EXCEPT !.start_cnt = @ + 1, !.in_speech = TRUE])
    ELSE [a EXCEPT !.start_cnt = @ + 1]

\* the start counter left as it is by a frame without speech
IdleFrame_NoReset(a, speech) ==
    IF ~speech THEN a
    ELSE IF a.start_cnt + 1 >= hang_start_frames
         THEN SeedSegmentFromPre([a EXCEPT !.start_cnt = @ + 1, !.in_speech = TRUE])
    ELSE [a EXCEPT !.start_cnt = @ + 1]

\* _process_frame, lines 764-773: not in speech, the frame kept as pre-roll
IdleFrame(a, speech) ==
    IF ~speech THEN [a EXCEPT !.start_cnt = 0]
    ELSE IF a.start_cnt + 1 >= hang_start_frames
         THEN SeedSegmentFromPre([a EXCEPT !.start_cnt = @ + 1, !.in_speech = TRUE])
    ELSE [a EXCEPT !.start_cnt = @ + 1]

\* the hangover counters left as they are by a frame with speech
CountStop_NoReset(a, speech) ==
    IF speech THEN a
    ELSE [a EXCEPT !.stop_cnt = @ + 1, !.gap_cnt = @ + 1]

\* _process_frame, lines 776-782: the hangover counters
CountStop(a, speech) ==
    IF speech THEN [a EXCEPT !.stop_cnt = 0, !.gap_cnt = 0]
    ELSE [a EXCEPT !.stop_cnt = @ + 1, !.gap_cnt = @ + 1]

\* _process_frame in speech without the max-turn test
SpeechFrame_NoMaxTurn(a, dec, now) ==
    IF a.stop_cnt >= hang_stop_frames /\ a.gap_cnt > bridge_frames
    THEN FinalizeSegment(a, 0, "vad-stop", dec)
    ELSE MaybeRunIntraseg(a, dec, now)

\* _process_frame, lines 784-793: in speech, the frame appended and counted
SpeechFrame(a, dec, now) ==
    IF a.cfg.max_turn_ms # 0 /\ ReachedMaxTurn(a)
    THEN FinalizeSegment(a, 0, "max-turn", dec)
    ELSE IF a.stop_cnt >= hang_stop_frames /\ a.gap_cnt > bridge_frames
         THEN FinalizeSegment(a, 0, "vad-stop", dec)
    ELSE MaybeRunIntraseg(a, dec, now)

\* _process_frame after "self._processed_samples += frame_f32.size"
FrameStep(a, frame, speech, dec, now) ==
    IF ~a.cfg.vad_enabled THEN VadOffFrame(AppendSegmentFrame(a, frame), dec, now)
    ELSE IF ~a.in_speech THEN IdleFrame(AppendPreAudio(a, frame), speech)
    ELSE SpeechFrame(CountStop(AppendSegmentFrame(a, frame), speech), dec, now)

\* what the frame did: it stayed pre-roll, it opened a segment from the
\* pre-roll, or it was appended to the open segment
FrameKind(before, after) ==
    IF ~before.cfg.vad_enabled \/ before.in_speech THEN "append"
    ELSE IF after.in_speech THEN "seed"
    ELSE "idle"

\* history: the frame _process_frame returned from, what it did, the reason
\* it closed the segment for ("" when it closed none), the interval of the
\* closed segment when it was decoded with what the decoder gave and the
\* number of entries queued so far, and the open segment, the pre-roll with
\* the number of its pieces, the provisional speaker, the gate and its
\* counters as it left them
FrameLogged(before, after, frame, speech) ==
    IF after.pc # "idle" THEN after
    ELSE
    [after EXCEPT !.frames = Append(@, [frame |-> frame,
                                        kind |-> FrameKind(before, after),
                                        closed |-> after.why,
                                        span |-> after.span,
                                        heard |-> after.heard,
                                        queued |-> Len(after.emitted),
                                        open |-> ASize(after.seg),
                                        seg |-> after.seg,
                                        pre |-> AConcatAll(after.pre),
                                        held |-> Len(after.pre),
                                        spk |-> after.current_speaker,
                                        speech |-> speech,
                                        in_speech |-> after.in_speech,
                                        cnt |-> <<after.start_cnt, after.stop_cnt,
                                                  after.gap_cnt>>]),
                  !.why = "", !.span = <<>>, !.heard = ""]

\* _process_frame(frame_f32, frame_bytes); speech is what _is_speech gives
ProcessFrame(a, frame, speech, dec, now) ==
    FrameLogged(a, FrameStep([a EXCEPT !.processed = @ + ASize(frame)], frame, speech, dec, now),
                frame, speech)

\* accept_chunk, lines 730-737: the loop over the complete frames
RECURSIVE FrameLoop(_, _, _, _, _, _, _)
FrameLoop(a, arr, i, frames, speech, dec, now) ==
    IF i >= frames \/ a.pc # "idle" THEN a
    ELSE FrameLoop(ProcessFrame(a, ASlice(arr, i * Block, (i + 1) * Block), speech, dec, now),
                   arr, i + 1, frames, speech, dec, now)

\* accept_chunk forgetting the remainder
KeepRemainder_Dropped(a, remainder) == a

\* accept_chunk, lines 738-740: the remainder kept for the next call
KeepRemainder(a, remainder) ==
    IF a.pc = "idle" /\ ASize(remainder) > 0 THEN [a EXCEPT !.residual = remainder] ELSE a

\* accept_chunk, lines 723-740: arr is the residual followed by the chunk
AcceptArr(a, arr, speech, dec, now) ==
    IF ASize(arr) = 0 THEN a
    ELSE KeepRemainder(FrameLoop(a, arr, 0, ASize(arr) \div Block, speech, dec, now),
                       ADrop(arr, (ASize(arr) \div Block) * Block))

\* accept_chunk(pcm16_bytes): chunk is the audio array of the bytes
AcceptChunk(a, chunk, speech, dec, now) ==
    IF ASize(chunk) = 0 THEN a
    ELSE AcceptArr([FeedLiveDiarChunk(a, ASize(chunk), now) EXCEPT !.residual = <<>>],
                   AConcat(a.residual, chunk), speech, dec, now)

\* try_finalize popping the newest entry
TryFinalize_Newest(a) ==
    IF Len(a.queue) > 0
    THEN [a |-> [a EXCEPT !.queue = SubSeq(@, 1, Len(@) - 1)], fin |-> <<a.queue[Len(a.queue)]>>]
    ELSE [a |-> a, fin |-> <<>>]

\* try_finalize: [a, fin], fin the popped entry or None
TryFinalize(a) ==
    IF Len(a.queue) > 0 THEN [a |-> [a EXCEPT !.queue = Tail(@)], fin |-> <<a.queue[1]>>]
    ELSE [a |-> a, fin |-> <<>>]

(***************************************************************************)
(* ws_stream: one /ws/stream session.  st = [w, a, c] is the session       *)
(* record, the engine (asr) and the session's own OnlineDiarizer (diar).   *)
(* The client stays connected for as long as the session is open.          *)
(***************************************************************************)
RecentFinalWindowMs == 6000
IdleTickSec == 3

\* _normalize_final_key on the texts the decoder gives here: whitespace and
\* punctuation removed
NormalizeFinalKey(text) == IF text = "hai." THEN "hai" ELSE text

\* _text_similarity in percent: SequenceMatcher(None, x, y).ratio()
TextSimilarity(x, y) ==
    IF x = y THEN 100
    ELSE IF NormalizeFinalKey(x) = NormalizeFinalKey(y) THEN 86
    ELSE 0

\* _segment_iou in percent, rounded down
SegmentIou(x, y) ==
    LET inter == Max(0, Min(x.t1, y.t1) - Max(x.t0, y.t0))
        union == (x.t1 - x.t0) + (y.t1 - y.t0) - inter
    IN  IF union > 0 THEN (inter * 100) \div union ELSE 0

\* _cleanup_final_keys: RECENT_FINAL_KEYS is a deque of <<key, time>>
RECURSIVE CleanupFinalKeys(_, _)
CleanupFinalKeys(keys, now) ==
    IF Len(keys) > 0 /\ keys[1][2] < now - Max(500, RecentFinalWindowMs)
    THEN CleanupFinalKeys(Tail(keys), now)
    ELSE keys

\* _is_recent_final_key, on the keys already cleaned up
IsRecentFinalKey(keys, key) == key # "" /\ \E i \in 1..Len(keys) : keys[i][1] = key

\* _remember_final_key
RememberFinalKey(keys, key, now) ==
    IF key = "" THEN keys ELSE CleanupFinalKeys(Append(keys, <<key, now>>), now)

\* the state of ws_stream when it enters its receive loop
NewWs ==
    [ state |-> "open", status |-> "completed", inited |-> FALSE,
      asr_on |-> FALSE, diar_on |-> FALSE, idle |-> 0,
      recorded |-> <<>>, rows |-> <<>>, finals |-> <<>>, keys |-> <<>>,
      last_final |-> <<>>, last_row_id |-> 0, next_row_id |-> 1,
      \* the recording's file: once wav.writeframes has raised it keeps raising
      disk_ok |-> TRUE,
      \* history: one entry per chunk received
      log |-> <<>> ]

\* emit_final: a "final-update" of the last row, or a new "final" row
EmitFinal(w, text, s, e, speaker) ==
    IF Len(w.last_final) > 0 /\ w.last_row_id # 0
       /\ SegmentIou([t0 |-> s, t1 |-> e], w.last_final[1]) >= 60
       /\ TextSimilarity(text, w.last_final[1].text) >= 80
    THEN [w EXCEPT !.finals = Append(@, [type |-> "final-update", rowId |-> w.last_row_id,
                                         text |-> text, t0 |-> s, t1 |-> e,
                                         speaker |-> speaker]),
                   !.last_final = <<[t0 |-> s, t1 |-> e, text |-> text]>>]
    ELSE [w EXCEPT !.finals = Append(@, [type |-> "final", rowId |-> w.next_row_id,
                                         text |-> text, t0 |-> s, t1 |-> e,
                                         speaker |-> speaker]),
                   !.next_row_id = @ + 1,
                   !.last_final = <<[t0 |-> s, t1 |-> e, text |-> text]>>,
                   !.last_row_id = w.next_row_id]

\* ws_stream, lines 486-501: the segment stored, remembered and sent
WsDeliver(w, f, spk, now) ==
    EmitFinal([w EXCEPT !.rows = Append(@, [start |-> f.start, end |-> f.end,
                                            speaker |-> spk, text |-> f.text]),
                        !.keys = RememberFinalKey(@, NormalizeFinalKey(f.text), now)],
              f.text, f.start, f.end, spk)

\* ws_stream, line 485: the label asked of the session's diarizer
WsDiarLabelled(st, f, r, now) ==
    [st EXCEPT !.c = r.clu, !.w = WsDeliver(@, f, r.label, now)]

\* ws_stream, lines 478-486: the speaker label of the segment
WsLabelled(st, f, label, now) ==
    IF label # None THEN [st EXCEPT !.w = WsDeliver(@, f, label, now)]
    ELSE IF st.w.diar_on
         THEN WsDiarLabelled(st, f,
                             Assign(st.c, ASize(f.audio), WindowEmb(st.a.cfg, f.start, f.end),
                                    ToMs(f.start), ToMs(f.end), now),
                             now)
    ELSE [st EXCEPT !.w = WsDeliver(@, f, "S1", now)]

\* ws_stream, lines 472-501: one final segment, skipped when its text was
\* delivered within the last seconds
WsFinalSegment(st, f, now) ==
    IF IsRecentFinalKey(st.w.keys, NormalizeFinalKey(f.text)) THEN st
    ELSE WsLabelled(st, f, MajoritySpeaker(st.a, f.start, f.end), now)

\* ws_stream, lines 467-501: the result t of try_finalize
WsPolled(st, t, now) ==
    IF Len(t.fin) = 0 THEN [st EXCEPT !.a = t.a]
    ELSE WsFinalSegment([st EXCEPT !.a = t.a, !.w.keys = CleanupFinalKeys(@, now)],
                        t.fin[1], now)

\* the ASR block leaving asr in place after an exception
WsAsrBlock_AsrKept(st, a1, now) ==
    IF a1.pc = "raised" THEN [st EXCEPT !.a = a1]
    ELSE WsPolled(st, TryFinalize(a1), now)

\* ws_stream, lines 455-511: the ASR block, a1 the engine accept_chunk left
WsAsrBlock(st, a1, now) ==
    IF a1.pc = "raised" THEN [st EXCEPT !.a = a1, !.w.asr_on = FALSE]
    ELSE WsPolled(st, TryFinalize(a1), now)

\* ws_stream, lines 415-428: the chunk appended to the recording, unless
\* wav.writeframes raised
WsWritten(w, data, write_ok) ==
    [w EXCEPT !.idle = 0, !.recorded = IF write_ok THEN Append(@, data) ELSE @,
              !.disk_ok = write_ok]

\* history: the chunk, whether the recording took it, and what the ASR block did
WsLogged(before, after, data, write_ok) ==
    [after EXCEPT !.w.log = Append(@, [data |-> data, written |-> write_ok,
                                       asr |-> IF ~before.w.asr_on THEN "off"
                                               ELSE IF after.a.pc = "raised" THEN "raised"
                                               ELSE "ok"])]

\* ws_stream, lines 415-514: one pass of the receive loop with a chunk
WsOnBytes(st, data, speech, dec, write_ok, now) ==
    IF ~st.w.asr_on
    THEN WsLogged(st, [st EXCEPT !.w = WsWritten(@, data, write_ok)], data, write_ok)
    ELSE WsLogged(st, WsAsrBlock([st EXCEPT !.w = WsWritten(@, data, write_ok)],
                                 AcceptChunk(st.a, data, speech, dec, now), now),
                  data, write_ok)

(***************************************************************************)
(* The clusterer driven on its own: any embeddings, durations and clock    *)
(* readings.  cluB is a second instance, constructed with the same         *)
(* configuration and given the very same calls as clu, but reading its own *)
(* clock.                                                                  *)
(***************************************************************************)
\* (M4_DIAR_MODE, M4_DIAR_K_MAX) pairs
CluConfigs == { <<"auto", 1>>, <<"auto", 2>>, <<"auto", 3>>,
                <<"fixedk", 2>>, <<"fixed2", 1>>, <<"off", 2>> }

\* what SpeakerEmbedding.embed may give for a window
EmbChoices == { EmbVec(<<1000, 0>>), EmbVec(<<0, 1000>>), EmbVec(<<-700, -700>>) }

\* the calls: (len(wav), start_ts, end_ts, embedding outcome); an empty buffer,
\* an utterance the embedder gives nothing for, short utterances of two voices
\* and long utterances of three
CluCalls ==
    { <<0, NoTs, NoTs, EmbNone>>, <<48000, 2000, 5000, EmbNone>>,
      <<4800, NoTs, NoTs, EmbVec(<<1000, 0>>)>>, <<8000, 1000, 1500, EmbVec(<<0, 1000>>)>>,
      <<4800, NoTs, NoTs, EmbVec(<<600, -800>>)>> }
        \cup { <<48000, 2000, 5000, emb>> : emb \in EmbChoices }

\* how far a clock moves between two calls, in ms
ClockSteps == { 10, 8000 }
\* how long after construction the first call comes, in ms
FirstSteps == { 10, 40000 }
StepsAt(n) == IF n = 0 THEN FirstSteps ELSE ClockSteps

\* what the last call was given (embedding outcome, duration) and returned
NoRet == [label |-> "", kind |-> "", emb |-> "", vec |-> <<0, 0>>, dur |-> 0]
RetOf(r, emb, dur) ==
    [label |-> r.label, kind |-> r.kind, emb |-> emb.kind, vec |-> emb.v, dur |-> dur]

\* no session in the picture
WsOff == [state |-> "off"]

\* no engine in the picture
AsrOff ==
    /\ asr = <<>>
    /\ fin = <<>>
    /\ taken = <<>>
    /\ sent = 0
    /\ nchunks = 0
    /\ ws = WsOff

CluInit ==
    /\ \E cf \in CluConfigs : clu = NewClustering(cf[1], cf[2], 0)
    /\ clock = 0
    /\ ret = NoRet
    /\ calls = 0
    /\ cluB = NewClustering("auto", 1, 0)
    /\ clockB = 0
    /\ retB = NoRet
    /\ AsrOff

\* one assign call on clu
CluAssign ==
    /\ calls < MaxCalls
    /\ \E call \in CluCalls, dt \in StepsAt(calls) :
          LET r == Assign(clu, call[1], call[4], call[2], call[3], clock + dt)
          IN  /\ clock' = clock + dt
              /\ clu' = r.clu
              /\ ret' = RetOf(r, call[4], AssignDuration(call[1], call[2], call[3]))
              /\ calls' = calls + 1
    /\ UNCHANGED <<cluB, clockB, retB>>
    /\ UNCHANGED asrVars

CluNext == CluAssign

SpecClu == CluInit /\ [][CluNext]_vars

(***************************************************************************)
(* Two freshly constructed clusterers with the same configuration, given   *)
(* the same calls (the same audio), each reading its own clock.            *)
(***************************************************************************)
TwinEmbChoices == { EmbVec(<<1000, 0>>), EmbVec(<<0, 1000>>) }
TwinShapes == { <<16000, 0, 1000>>, <<48000, 2000, 5000>> }

TwinInit ==
    /\ \E cf \in { <<"auto", 2>>, <<"auto", 3>> } :
          /\ clu = NewClustering(cf[1], cf[2], 0)
          /\ cluB = NewClustering(cf[1], cf[2], 0)
    /\ clock = 0
    /\ clockB = 0
    /\ ret = NoRet
    /\ retB = NoRet
    /\ calls = 0
    /\ AsrOff

\* the same assign call on clu and on cluB
TwinAssign ==
    /\ calls < MaxCalls
    /\ \E emb \in TwinEmbChoices, sh \in TwinShapes, dt \in StepsAt(calls), dtB \in StepsAt(calls) :
          LET r == Assign(clu, sh[1], emb, sh[2], sh[3], clock + dt)
              rB == Assign(cluB, sh[1], emb, sh[2], sh[3], clockB + dtB)
          IN  /\ clock' = clock + dt
              /\ clockB' = clockB + dtB
              /\ clu' = r.clu
              /\ cluB' = rB.clu
              /\ ret' = RetOf(r, emb, AssignDuration(sh[1], sh[2], sh[3]))
              /\ retB' = RetOf(rB, emb, AssignDuration(sh[1], sh[2], sh[3]))
              /\ calls' = calls + 1
    /\ UNCHANGED asrVars

TwinNext == TwinAssign

SpecTwin == TwinInit /\ [][TwinNext]_vars

(***************************************************************************)
(* One speaker talking for SoloSpeechMs: a clusterer with the default      *)
(* configuration is given one utterance after the other, back to back, its *)
(* clock following the audio.  The first utterance founds the first        *)
(* cluster; every later embedding is within cosine 0.95 of that centroid.  *)
(***************************************************************************)
\* M4_DIAR_K_MAX default
KMaxDefault == 3
\* the length of the speech, in ms
SoloSpeechMs == 40000
\* the first embedding of the speaker
SoloFirstVoice == EmbVec(<<1000, 0>>)
\* the embeddings of the speaker: cosine 1.0, 0.999 and 0.95 to the first one
SoloVoices == { SoloFirstVoice, EmbVec(<<999, 45>>), EmbVec(<<950, 312>>) }
\* the lengths of an utterance, in ms
SoloDurations == { 4000, 8000 }

SoloInit ==
    /\ clu = NewClustering("auto", KMaxDefault, 0)
    /\ clock = 0
    /\ ret = NoRet
    /\ calls = 0
    /\ cluB = NewClustering("auto", 1, 0)
    /\ clockB = 0
    /\ retB = NoRet
    /\ AsrOff

\* the next utterance [clock, clock + d) of the speaker, assigned when it ends
SoloAssign ==
    /\ \E d \in SoloDurations, emb \in (IF calls = 0 THEN {SoloFirstVoice} ELSE SoloVoices) :
          /\ clock + d <= SoloSpeechMs
          /\ LET r == Assign(clu, (d * SampleRate) \div 1000, emb, clock, clock + d, clock + d)
             IN  /\ clock' = clock + d
                 /\ clu' = r.clu
                 /\ ret' = RetOf(r, emb, d)
                 /\ calls' = calls + 1
    /\ UNCHANGED <<cluB, clockB, retB>>
    /\ UNCHANGED asrVars

SoloNext == SoloAssign

SpecSolo == SoloInit /\ [][SoloNext]_vars

(***************************************************************************)
(* A longer conversation on one clusterer in auto mode: a short opening    *)
(* word, then utterances of 2.5 s and 4 s from voices 30, -40 and 60       *)
(* degrees away from it, 8 s of clock between one call and the next, so    *)
(* that clusters are created, merged into and pruned.                      *)
(***************************************************************************)
\* the number of assign calls of the conversation
MaxTalkCalls == 5
TalkConfigs == { <<"auto", 3>>, <<"auto", 4>> }
TalkCalls ==
    { <<4800, NoTs, NoTs, EmbVec(<<1000, 0>>)>>,
      <<40000, NoTs, NoTs, EmbVec(<<866, 500>>)>>,
      <<64000, NoTs, NoTs, EmbVec(<<766, -643>>)>>,
      <<40000, NoTs, NoTs, EmbVec(<<500, 866>>)>> }
\* the clock between two calls, in ms
TalkStep == 8000

TalkInit ==
    /\ \E cf \in TalkConfigs : clu = NewClustering(cf[1], cf[2], 0)
    /\ clock = 0
    /\ ret = NoRet
    /\ calls = 0
    /\ cluB = NewClustering("auto", 1, 0)
    /\ clockB = 0
    /\ retB = NoRet
    /\ AsrOff

\* one assign call of the conversation
TalkAssign ==
    /\ calls < MaxTalkCalls
    /\ \E call \in TalkCalls :
          LET r == Assign(clu, call[1], call[4], call[2], call[3], clock + TalkStep)
          IN  /\ clock' = clock + TalkStep
              /\ clu' = r.clu
              /\ ret' = RetOf(r, call[4], AssignDuration(call[1], call[2], call[3]))
              /\ calls' = calls + 1
    /\ UNCHANGED <<cluB, clockB, retB>>
    /\ UNCHANGED asrVars

TalkNext == TalkAssign

SpecTalk == TalkInit /\ [][TalkNext]_vars

(***************************************************************************)
(* The engine driven on its own: a stream cut into chunks of any length,   *)
(* every frame of a chunk classified alike by the VAD, the decoder giving  *)
(* a text, nothing, or never returning; try_finalize polled at any time.   *)
(***************************************************************************)
BaseCfg == [vad_enabled |-> TRUE, max_turn_ms |-> 0, live_diar |-> TRUE, intraseg |-> FALSE,
            voices |-> "one", win_ms |-> 1000, delay |-> 10, retention_ms |-> RetentionMs]

AsrConfigs ==
    { BaseCfg,
      [BaseCfg EXCEPT !.voices = "none"],
      [BaseCfg EXCEPT !.voices = "raise"],
      [BaseCfg EXCEPT !.voices = "nonfinite"],
      [BaseCfg EXCEPT !.live_diar = FALSE],
      [BaseCfg EXCEPT !.vad_enabled = FALSE],
      [BaseCfg EXCEPT !.max_turn_ms = 200],
      [BaseCfg EXCEPT !.max_turn_ms = 1000],
      [BaseCfg EXCEPT !.vad_enabled = FALSE, !.max_turn_ms = 1000],
      [BaseCfg EXCEPT !.voices = "two", !.win_ms = 2500, !.delay = 40000],
      [BaseCfg EXCEPT !.voices = "two", !.win_ms = 2500, !.delay = 40000,
                      !.retention_ms = 1000],
      [BaseCfg EXCEPT !.voices = "two", !.intraseg = TRUE] }

\* chunk lengths in samples: half a frame, six frames, 1 s, 1.5 s and 3.5 s
ChunkSizes(cfg) ==
    IF cfg.win_ms > 1000 /\ cfg.retention_ms < RetentionMs THEN {4800, 56000}
    ELSE IF cfg.win_ms > 1000 THEN {4800, 24000}
    ELSE IF cfg.intraseg THEN {4800, 16000}
    ELSE {400, 4800}

DecodeOutcomes == {"text", "empty", "hang"}

CluOff ==
    /\ clu = NewClustering("off", 1, 0)
    /\ cluB = NewClustering("off", 1, 0)
    /\ ret = NoRet
    /\ retB = NoRet
    /\ calls = 0
    /\ clockB = 0

AsrInit ==
    /\ \E cfg \in AsrConfigs : asr = NewAsr(cfg, 0)
    /\ fin = <<>>
    /\ taken = <<>>
    /\ sent = 0
    /\ nchunks = 0
    /\ clock = 0
    /\ ws = WsOff
    /\ CluOff

\* one accept_chunk call with the next n samples of the stream
AsrAcceptChunk ==
    /\ nchunks < MaxChunks
    /\ asr.pc = "idle"
    /\ \E n \in ChunkSizes(asr.cfg), speech \in BOOLEAN, dec \in DecodeOutcomes :
          LET now == clock + (IF nchunks = 0 THEN asr.cfg.delay ELSE 0) + ToMs(n)
          IN  /\ asr' = AcceptChunk(asr, <<<<sent, sent + n>>>>, speech, dec, now)
              /\ clock' = now
              /\ sent' = sent + n
              /\ nchunks' = nchunks + 1
    /\ UNCHANGED <<fin, taken, ws>>
    /\ UNCHANGED <<clu, ret, calls, cluB, clockB, retB>>

\* one try_finalize call
AsrTryFinalize ==
    /\ asr.pc = "idle"
    /\ asr' = TryFinalize(asr).a
    /\ fin' = TryFinalize(asr).fin
    /\ taken' = taken \o TryFinalize(asr).fin
    /\ UNCHANGED <<sent, nchunks, clock, ws>>
    /\ UNCHANGED <<clu, ret, calls, cluB, clockB, retB>>

AsrNext == AsrAcceptChunk \/ AsrTryFinalize

SpecAsr == AsrInit /\ [][AsrNext]_vars

(***************************************************************************)
(* The engine with the in-segment tracker on (M4_DIAR_INTRASEG=1), the     *)
(* voice gate enabled or disabled, one speaker on the line.                *)
(***************************************************************************)
CutConfigs ==
    { [BaseCfg EXCEPT !.intraseg = TRUE],
      [BaseCfg EXCEPT !.intraseg = TRUE, !.vad_enabled = FALSE] }

CutInit ==
    /\ \E cfg \in CutConfigs : asr = NewAsr(cfg, 0)
    /\ fin = <<>>
    /\ taken = <<>>
    /\ sent = 0
    /\ nchunks = 0
    /\ clock = 0
    /\ ws = WsOff
    /\ CluOff

CutNext == AsrAcceptChunk

SpecCut == CutInit /\ [][CutNext]_vars

(***************************************************************************)
(* The in-segment tracker of the engine stepped on its own: windows of 1 s *)
(* from two voices at right angles and from a voice between them, taken    *)
(* against no label or against S1, in a segment shorter or longer than     *)
(* min_switch_sec, one window every half cooldown.                         *)
(***************************************************************************)
\* the number of step calls
MaxStepCalls == 4
\* hop_sec of the calls, in ms: M4_DIAR_EMB_HOP_S set to 0.5 and to 2.0
StepHops == { 500, 2000 }
StepVoices == { EmbVec(<<1000, 0>>), EmbVec(<<0, 1000>>), EmbVec(<<680, 733>>) }
StepLabels == { None, "S1" }
\* seg_dur_sec of the calls, in ms
StepSegDurs == { 300, 1000 }
\* the clock between two calls, in ms
StepTick == 1250

\* DiarDecision.margin of the step on tracker t with embedding e
StepMarginOf(simv) == simv[ArgMaxIdx(simv)] - MaxExcept(simv, ArgMaxIdx(simv), -SimScale)
StepMargin(t, e) ==
    IF ~e.ok THEN 0
    ELSE StepMarginOf(StreamSims(EnsureLabel(t.centroids, e.v, StreamSims(t.centroids, e.v)),
                                 e.v))

\* what a step call was given and what it returned
StepRet(d, margin, current_label, seg_dur, hop) ==
    [some |-> d.some, label |-> d.label, cut |-> d.cut, reason |-> d.reason,
     margin |-> margin, current |-> current_label, seg_dur |-> seg_dur, hop |-> hop]

StepInit ==
    /\ asr = NewAsr([BaseCfg EXCEPT !.intraseg = TRUE], 0)
    /\ \E hop \in StepHops :
          ret = StepRet([some |-> FALSE, label |-> None, cut |-> FALSE, reason |-> ""],
                        0, None, 0, hop)
    /\ clock = 0
    /\ calls = 0
    /\ fin = <<>>
    /\ taken = <<>>
    /\ sent = 0
    /\ nchunks = 0
    /\ ws = WsOff
    /\ clu = NewClustering("off", 1, 0)
    /\ cluB = NewClustering("off", 1, 0)
    /\ retB = NoRet
    /\ clockB = 0

\* the tracker and the decision a step call leaves behind
StepReturned(d, margin, current_label, seg_dur) ==
    /\ asr' = [asr EXCEPT !.trk = d.t]
    /\ ret' = StepRet(d, margin, current_label, seg_dur, ret.hop)

\* one call of self._spk_tracker.step
StepCall ==
    /\ calls < MaxStepCalls
    /\ \E emb \in StepVoices, cur \in StepLabels, dur \in StepSegDurs :
          StepReturned(StreamStep(asr.trk, Sr, emb, cur, dur, ret.hop, clock + StepTick),
                       StepMargin(asr.trk, StreamEmbed(Sr, emb)), cur, dur)
    /\ clock' = clock + StepTick
    /\ calls' = calls + 1
    /\ UNCHANGED <<fin, taken, sent, nchunks, ws>>
    /\ UNCHANGED <<clu, cluB, clockB, retB>>

StepNext == StepCall

SpecStep == StepInit /\ [][StepNext]_vars

(***************************************************************************)
(* Two speakers taking turns of 3 s for 60 s, without a pause, through the *)
(* engine: their embeddings are orthogonal (cosine distance 1), a window   *)
(* of the live timeline sounds like whoever speaks at its middle.          *)
(***************************************************************************)
DuetSamples == 60 * Sr
DuetCfg == [BaseCfg EXCEPT !.voices = "alt"]
DuetConfigs ==
    { DuetCfg,
      [DuetCfg EXCEPT !.delay = 40000],
      [DuetCfg EXCEPT !.vad_enabled = FALSE] }
\* chunk lengths in samples: half a turn, a turn
DuetChunkSizes == { TurnSamples \div 2, TurnSamples }

DuetInit ==
    /\ \E cfg \in DuetConfigs : asr = NewAsr(cfg, 0)
    /\ fin = <<>>
    /\ taken = <<>>
    /\ sent = 0
    /\ nchunks = 0
    /\ clock = 0
    /\ ws = WsOff
    /\ CluOff

\* one accept_chunk call with the next n samples of the conversation
DuetAcceptChunk ==
    /\ asr.pc = "idle"
    /\ \E n \in DuetChunkSizes :
          LET now == clock + (IF nchunks = 0 THEN asr.cfg.delay ELSE 0) + ToMs(n)
          IN  /\ sent + n <= DuetSamples
              /\ asr' = AcceptChunk(asr, <<<<sent, sent + n>>>>, TRUE, "text", now)
              /\ clock' = now
              /\ sent' = sent + n
              /\ nchunks' = nchunks + 1
    /\ UNCHANGED <<fin, taken, ws>>
    /\ UNCHANGED <<clu, ret, calls, cluB, clockB, retB>>

DuetNext == DuetAcceptChunk

SpecDuet == DuetInit /\ [][DuetNext]_vars

(***************************************************************************)
(* A /ws/stream session: the models come up in the background, chunks      *)
(* arrive or the receive times out, the decoder gives a text or raises,    *)
(* the recording takes a chunk or fails to, and the client leaves.         *)
(***************************************************************************)
WsConfigs == { BaseCfg, [BaseCfg EXCEPT !.live_diar = FALSE] }
WsChunkSizes == {4800}
WsDecodeOutcomes == {"hai", "hai.", "raise"}

WsInit ==
    /\ ws = NewWs
    /\ asr = <<>>
    /\ fin = <<>>
    /\ taken = <<>>
    /\ sent = 0
    /\ nchunks = 0
    /\ clock = 0
    /\ CluOff

\* _init_models, the background task: the engine and the session's diarizer
\* constructed, or create_realtime_asr raising
WsInitModels ==
    /\ ws.state = "open"
    /\ ~ws.inited
    /\ \/ \E cfg \in WsConfigs :
             /\ asr' = NewAsr(cfg, clock)
             /\ clu' = NewClustering("auto", 3, clock)
             /\ ws' = [ws EXCEPT !.inited = TRUE, !.asr_on = TRUE, !.diar_on = cfg.live_diar]
       \/ /\ ws' = [ws EXCEPT !.inited = TRUE]
          /\ UNCHANGED <<asr, clu>>
    /\ UNCHANGED <<fin, taken, sent, nchunks, clock, ret, calls, cluB, clockB, retB>>

\* receive_bytes gives the next n samples of the stream
WsReceive ==
    /\ ws.state = "open"
    /\ nchunks < MaxWsChunks
    /\ \E n \in WsChunkSizes, speech \in BOOLEAN, dec \in WsDecodeOutcomes,
          write_ok \in (IF ws.disk_ok THEN BOOLEAN ELSE {FALSE}) :
          LET st == WsOnBytes([w |-> ws, a |-> asr, c |-> clu], <<<<sent, sent + n>>>>,
                              speech, dec, write_ok, clock + ToMs(n))
          IN  /\ ws' = st.w
              /\ asr' = st.a
              /\ clu' = st.c
              /\ clock' = clock + ToMs(n)
              /\ sent' = sent + n
              /\ nchunks' = nchunks + 1
    /\ UNCHANGED <<fin, taken, ret, calls, cluB, clockB, retB>>

\* receive_bytes times out after 3 s
WsIdle ==
    /\ ws.state = "open"
    /\ ws.idle < MaxIdle
    /\ ws' = [ws EXCEPT !.idle = @ + IdleTickSec]
    /\ clock' = clock + IdleTickSec * 1000
    /\ UNCHANGED <<asr, clu, fin, taken, sent, nchunks, ret, calls, cluB, clockB, retB>>

\* receive_bytes raises WebSocketDisconnect: the handler and the finally block
WsDisconnect ==
    /\ ws.state = "open"
    /\ ws' = [ws EXCEPT !.state = "closed", !.status = "client_disconnect"]
    /\ UNCHANGED <<asr, clu, clock, fin, taken, sent, nchunks, ret, calls, cluB, clockB, retB>>

WsNext == WsInitModels \/ WsReceive \/ WsIdle \/ WsDisconnect

SpecWs == WsInit /\ [][WsNext]_vars


(***************************************************************************)
(* Two WebSocket sessions in one process.  RECENT_FINAL_KEYS is a global   *)
(* of the module ws.py, so both read and write the same deque.  Beside     *)
(* them runs a copy of the first session that is given the same segments   *)
(* at the same times but has the deque to itself.                          *)
(***************************************************************************)
MaxPairFinals == 4
\* the texts try_finalize gives, and how far the clock moves between two
\* segments, in ms
PairTexts == { "hai", "iie" }
PairSteps == { 1000, 7000 }

\* a session with its engine up, before its first segment
PairSession == [NewWs EXCEPT !.inited = TRUE, !.asr_on = TRUE]

\* the n-th segment of a session, one second long, as try_finalize gives it
PairSegmentOf(n, text) ==
    [start |-> n * Sr, end |-> (n + 1) * Sr, text |-> text,
     audio |-> <<<<n * Sr, (n + 1) * Sr>>>>]

\* ws_stream, lines 467-501, in session w with RECENT_FINAL_KEYS = keys
PairPolled(w, keys, f, now) ==
    WsPolled([w |-> [w EXCEPT !.keys = keys],
              a |-> NewAsr([BaseCfg EXCEPT !.live_diar = FALSE], 0),
              c |-> NewClustering("off", 1, 0)],
             [a |-> NewAsr([BaseCfg EXCEPT !.live_diar = FALSE], 0), fin |-> <<f>>],
             now).w

PairInit ==
    /\ ws = [state |-> "pair", first |-> PairSession, second |-> PairSession,
             alone |-> PairSession, keys |-> <<>>]
    /\ clock = 0
    /\ asr = <<>>
    /\ fin = <<>>
    /\ taken = <<>>
    /\ sent = 0
    /\ nchunks = 0
    /\ CluOff

\* the first session, and its copy, get a segment from try_finalize; the
\* deque of the module is kept in ws.keys, the one of the copy in its record
PairFirstFinal ==
    /\ nchunks < MaxPairFinals
    /\ \E text \in PairTexts, dt \in PairSteps :
          /\ ws' = [ws EXCEPT
                      !.first = [PairPolled(@, ws.keys,
                                            PairSegmentOf(Len(ws.alone.log), text), clock + dt)
                                 EXCEPT !.keys = <<>>],
                      !.keys = PairPolled(ws.first, ws.keys,
                                          PairSegmentOf(Len(ws.alone.log), text),
                                          clock + dt).keys,
                      !.alone = [PairPolled(@, ws.alone.keys,
                                            PairSegmentOf(Len(ws.alone.log), text), clock + dt)
                                 EXCEPT !.log = Append(@, text)]]
          /\ clock' = clock + dt
    /\ nchunks' = nchunks + 1
    /\ UNCHANGED <<asr, fin, taken, sent>>
    /\ UNCHANGED <<clu, ret, calls, cluB, clockB, retB>>

\* the second session gets a segment from try_finalize
PairSecondFinal ==
    /\ nchunks < MaxPairFinals
    /\ \E text \in PairTexts, dt \in PairSteps :
          /\ ws' = [ws EXCEPT
                      !.second = [PairPolled(@, ws.keys,
                                             PairSegmentOf(Len(ws.second.log), text),
                                             clock + dt)
                                  EXCEPT !.log = Append(@, text), !.keys = <<>>],
                      !.keys = PairPolled(ws.second, ws.keys,
                                          PairSegmentOf(Len(ws.second.log), text),
                                          clock + dt).keys]
          /\ clock' = clock + dt
    /\ nchunks' = nchunks + 1
    /\ UNCHANGED <<asr, fin, taken, sent>>
    /\ UNCHANGED <<clu, ret, calls, cluB, clockB, retB>>

PairNext == PairFirstFinal \/ PairSecondFinal

SpecPair == PairInit /\ [][PairNext]_vars

(***************************************************************************)
(* The clusterer in a conversation of two voices with interjections of     *)
(* 0.5 s, between min_short and min_switch, near the first voice.          *)
(***************************************************************************)
MaxGuardCalls == 4
\* the clock between two calls, in ms
GuardStep == 8000
\* utterances of 2.5 s of the two voices, and interjections of 0.5 s at
\* similarity 0.80, 0.73 and 0.60 to the first voice
GuardCalls ==
    { <<40000, NoTs, NoTs, EmbVec(<<1000, 0>>)>>,
      <<40000, NoTs, NoTs, EmbVec(<<0, 1000>>)>>,
      <<8000, NoTs, NoTs, EmbVec(<<800, -600>>)>>,
      <<8000, NoTs, NoTs, EmbVec(<<731, -682>>)>>,
      <<8000, NoTs, NoTs, EmbVec(<<600, -800>>)>> }

GuardInit ==
    /\ clu = NewClustering("auto", 3, 0)
    /\ clock = 0
    /\ ret = NoRet
    /\ calls = 0
    /\ cluB = NewClustering("auto", 1, 0)
    /\ clockB = 0
    /\ retB = NoRet
    /\ AsrOff

\* one assign call of the conversation
GuardAssign ==
    /\ calls < MaxGuardCalls
    /\ \E call \in GuardCalls :
          LET r == Assign(clu, call[1], call[4], call[2], call[3], clock + GuardStep)
          IN  /\ clock' = clock + GuardStep
              /\ clu' = r.clu
              /\ ret' = RetOf(r, call[4], AssignDuration(call[1], call[2], call[3]))
              /\ calls' = calls + 1
    /\ UNCHANGED <<cluB, clockB, retB>>
    /\ UNCHANGED asrVars

GuardNext == GuardAssign

SpecGuard == GuardInit /\ [][GuardNext]_vars

(***************************************************************************)
(* The energy gate (M4_VAD_ENGINE=energy) in front of the engine: the RMS  *)
(* level of every frame is compared with thresholds that follow the noise  *)
(* floor. Levels in millionths of full scale, multipliers in tenths.       *)
(***************************************************************************)
NearSilentRms == 2000
ThStartMul == 50
ThStopMul == 35
ThMin == 500
ThMax == 20000
NoiseCalMs == 600
noise_cal_frames == Max(1, RDiv(NoiseCalMs, FrameMs))

\* np.clip
Clip(x, lo, hi) == Max(lo, Min(hi, x))

\* _update_energy_thresholds
UpdateEnergyThresholds(g) ==
    [g EXCEPT !.start_th = Clip(RDiv(g.noise_rms * ThStartMul, 10), ThMin, ThMax),
              !.stop_th = Clip(RDiv(g.noise_rms * ThStopMul, 10), ThMin, ThMax)]

\* _setup_vad, lines 157-164: the energy gate before the first frame
NewEnergyGate ==
    UpdateEnergyThresholds([noise_rms |-> NearSilentRms, start_th |-> 0, stop_th |-> 0,
                            noise_cal_values |-> <<>>, noise_calibrated |-> FALSE])

\* _is_speech, lines 531-534: the noise floor follows a quiet frame
FollowNoise(g, in_speech, rms) ==
    IF ~in_speech /\ rms * 10 < g.stop_th * 9
    THEN UpdateEnergyThresholds([g EXCEPT !.noise_rms = RDiv(98 * @ + 2 * rms, 100)])
    ELSE g

\* _is_speech, line 535, after the noise floor has followed
IsSpeech(g, in_speech, rms) == rms >= (IF ~in_speech THEN g.start_th ELSE g.stop_th)

RECURSIVE InsertLevel(_, _)
InsertLevel(sorted, x) ==
    IF Len(sorted) = 0 THEN <<x>>
    ELSE IF sorted[Len(sorted)] <= x THEN Append(sorted, x)
    ELSE Append(InsertLevel(SubSeq(sorted, 1, Len(sorted) - 1), x), sorted[Len(sorted)])

RECURSIVE SortLevels(_)
SortLevels(vals) ==
    IF Len(vals) = 0 THEN <<>>
    ELSE InsertLevel(SortLevels(SubSeq(vals, 1, Len(vals) - 1)), vals[Len(vals)])

\* np.median of the sorted values s
Median(s) ==
    IF Len(s) % 2 = 1 THEN s[(Len(s) + 1) \div 2]
    ELSE RDiv(s[Len(s) \div 2] + s[Len(s) \div 2 + 1], 2)

\* np.percentile(., 95) of the sorted values s, interpolating linearly
Percentile95(s) ==
    IF (95 * (Len(s) - 1)) \div 100 + 1 >= Len(s) THEN s[Len(s)]
    ELSE s[(95 * (Len(s) - 1)) \div 100 + 1]
         + RDiv(((95 * (Len(s) - 1)) % 100)
                   * (s[(95 * (Len(s) - 1)) \div 100 + 2] - s[(95 * (Len(s) - 1)) \div 100 + 1]),
                100)

\* _maybe_calibrate, lines 547-549: the start threshold kept above the stop
ThresholdsApart(g) ==
    IF g.start_th <= g.stop_th
    THEN [g EXCEPT !.start_th = Min(ThMax, RDiv(g.stop_th * 11, 10)),
                   !.stop_th = Max(ThMin, RDiv(Min(ThMax, RDiv(g.stop_th * 11, 10)) * 7, 10))]
    ELSE g

\* _maybe_calibrate, lines 541-549: the noise floor set from the sorted levels s
Calibrated(g, s) ==
    ThresholdsApart(UpdateEnergyThresholds(
        [g EXCEPT !.noise_rms = Max(ThMin, RDiv(Median(s) + Percentile95(s), 2)),
                  !.noise_calibrated = TRUE]))

\* _maybe_calibrate(frame), rms the level of the frame
MaybeCalibrate(g, rms) ==
    IF g.noise_calibrated THEN g
    ELSE IF Len(g.noise_cal_values) + 1 >= noise_cal_frames
         THEN Calibrated([g EXCEPT !.noise_cal_values = Append(@, rms)],
                         SortLevels(Append(g.noise_cal_values, rms)))
    ELSE [g EXCEPT !.noise_cal_values = Append(@, rms)]

MaxGateFrames == 13
\* the levels of a frame: near silence and speech
GateLevels == {300, 50000}

GateInit ==
    /\ asr = NewAsr(BaseCfg, 0)
    /\ ret = NewEnergyGate
    /\ clock = 0
    /\ calls = 0
    /\ fin = <<>>
    /\ taken = <<>>
    /\ sent = 0
    /\ nchunks = 0
    /\ ws = WsOff
    /\ clu = NewClustering("off", 1, 0)
    /\ cluB = NewClustering("off", 1, 0)
    /\ retB = NoRet
    /\ clockB = 0

\* _process_frame, lines 761-762 and on: the gate g after _maybe_calibrate and
\* _is_speech, and the frame handled with what _is_speech returned
GateHeard(g, rms) ==
    /\ ret' = g
    /\ asr' = AcceptChunk(asr, <<<<sent, sent + Block>>>>, IsSpeech(g, asr.in_speech, rms),
                          "text", clock + FrameMs)

\* accept_chunk with one frame of the stream
GateFrame ==
    /\ nchunks < MaxGateFrames
    /\ asr.pc = "idle"
    /\ \E rms \in GateLevels :
          GateHeard(FollowNoise(MaybeCalibrate(ret, rms), asr.in_speech, rms), rms)
    /\ clock' = clock + FrameMs
    /\ sent' = sent + Block
    /\ nchunks' = nchunks + 1
    /\ UNCHANGED <<fin, taken, calls, ws>>
    /\ UNCHANGED <<clu, cluB, clockB, retB>>

GateNext == GateFrame

SpecGate == GateInit /\ [][GateNext]_vars

(***************************************************************************)
(* Claims about the clusterer                                              *)
(***************************************************************************)
ClusterCount(c) == Len(c.centroids)

C9_SameLabels == ret.label = retB.label

(***************************************************************************)
(* Claims about the engine                                                 *)
(***************************************************************************)
\* the queue entry of a logged emission
QueueEntry(e) == [start |-> e.start, end |-> e.end, text |-> e.text, audio |-> e.audio]
\* every entry ever appended to the finalize queue, in order
Enqueued == [i \in 1..Len(asr.emitted) |-> QueueEntry(asr.emitted[i])]

\* C2: try_finalize returns the pending segments in the order they were
\* enqueued, takes exactly one per call, returns every enqueued segment exactly
\* once (what was returned followed by what is pending is always what was
\* enqueued), and returns none, leaving the queue alone, when nothing is pending.
C2_FifoExactlyOnce ==
    /\ [](Seq1(taken \o asr.queue) = Seq1(Enqueued))
    /\ [][nchunks' = nchunks =>
            IF Len(asr.queue) = 0
            THEN fin' = <<>> /\ asr'.queue = <<>> /\ taken' = taken
            ELSE /\ fin' = <<asr.queue[1]>>
                 /\ asr'.queue = Tail(asr.queue)
                 /\ taken' = Append(taken, asr.queue[1])]_vars

\* C2 witness: two different segments were queued together, both were returned,
\* and a further call found nothing pending.
C2_Witness ==
    /\ Len(taken) >= 2
    /\ taken[1] # taken[2]
    /\ Len(asr.queue) = 0
    /\ fin = <<>>

\* C3: the start times of the segments placed in the finalize queue are
\* non-decreasing in emission order, whatever closed them.
C3_StartsNonDecreasing ==
    \A i, j \in 1..Len(asr.emitted) :
        i < j => asr.emitted[i].start <= asr.emitted[j].start

\* C3 witness: a segment was cut inside the speech with a backtrace, and the
\* next segment, seeded from the carried tail, starts before the cut one ends.
C3_Witness ==
    /\ Len(asr.emitted) >= 2
    /\ asr.emitted[1].reason = "margin-strong"
    /\ asr.emitted[2].start < asr.emitted[1].end

\* C4: however the stream is cut into chunks, once accept_chunk has returned
\* the frames processed are exactly the complete frames of the stream received
\* so far, in order, the buffered remainder is shorter than one frame, and
\* processed samples + remainder samples = samples received.
C4_FramesWhateverTheChunks ==
    asr.pc = "idle" =>
        /\ Len(asr.frames) = sent \div Block
        /\ \A i \in 1..Len(asr.frames) :
              asr.frames[i].frame = <<<<(i - 1) * Block, i * Block>>>>
        /\ ASize(asr.residual) < Block
        /\ asr.processed = Len(asr.frames) * Block
        /\ asr.processed + ASize(asr.residual) = sent

\* C4 witness: three half-frame chunks: the first frame was put together from
\* two chunks and half a frame is buffered.
C4_Witness ==
    /\ nchunks = 3
    /\ sent = 3 * (Block \div 2)
    /\ Len(asr.frames) = 1
    /\ ASize(asr.residual) = Block \div 2

\* C6 (as stated): ingestion never stalls on the decoder: accept_chunk always
\* returns, control is never left inside a decode call.
C6_AcceptChunkReturns == asr.pc # "decode"

\* C8: with the embedding provider unavailable on every call, assign leaves
\* the clusterer as constructed (no cluster, no duration, no active label) and
\* returns "S1" for every window, and every segment closed with a text is
\* enqueued and carries the label "S1".
C8_FallbackLabel ==
    asr.cfg.voices \in {"none", "raise", "nonfinite"} =>
        /\ asr.live = NewClustering("auto", 3, 0)
        /\ \A i \in 1..Len(asr.timeline) : asr.timeline[i][3] = "S1"
        /\ \A i \in 1..Len(asr.emitted) : asr.emitted[i].label = "S1"
        /\ Len(taken) + Len(asr.queue) = Len(asr.emitted)

\* C8 witness: the provider gave nothing for the window handed to the diarizer,
\* and a segment closed after that window waits in the queue.
C8_Witness ==
    /\ asr.cfg.voices \in {"none", "raise", "nonfinite"}
    /\ Len(asr.timeline) >= 1
    /\ Len(asr.queue) >= 1
    /\ asr.queue[1].end >= asr.timeline[1][2]

\* C10 (as stated): with max_turn configured, after any processed frame the
\* open segment is shorter than max_turn.
C10_OpenBelowMaxTurn ==
    asr.cfg.max_turn_ms > 0 =>
        \A i \in 1..Len(asr.frames) :
            asr.frames[i].open * 1000 < asr.cfg.max_turn_ms * Sr

\* C10 (amended): with max_turn configured, after any frame appended to the
\* open segment the segment is shorter than max_turn (it is closed on the frame
\* that reaches max_turn); the frame that opens a segment copies the pre-roll
\* into it unchecked, and leaves at most prepad_frames frames in it.
C10_AppendedBelowMaxTurn ==
    asr.cfg.max_turn_ms > 0 =>
        \A i \in 1..Len(asr.frames) :
            /\ asr.frames[i].kind = "append" =>
                  asr.frames[i].open * 1000 < asr.cfg.max_turn_ms * Sr
            /\ asr.frames[i].kind = "seed" => asr.frames[i].open <= prepad_frames * Block
            /\ asr.frames[i].kind = "idle" => asr.frames[i].open = 0

\* C10 witness: with the VAD on and every frame speech, the segment was closed
\* by max-turn on the frame that brought it to max_turn.
C10_Witness ==
    /\ asr.cfg.vad_enabled
    /\ asr.cfg.max_turn_ms > 0
    /\ \E i \in 2..Len(asr.frames) :
          /\ asr.frames[i].kind = "append"
          /\ asr.frames[i].open = 0
          /\ (asr.frames[i - 1].open + Block) * 1000 >= asr.cfg.max_turn_ms * Sr
    /\ \E k \in 1..Len(asr.emitted) : asr.emitted[k].reason = "max-turn"

(***************************************************************************)
(* Claims about the session                                                *)
(***************************************************************************)
\* C5 (as stated): when teardown has completed, no segment long enough to be
\* emitted is left open in the engine.
C5_NoOpenSegmentAfterTeardown ==
    (ws.state = "closed" /\ ws.asr_on) =>
        ~(ASize(asr.seg) > 0 /\ ~TooShort(ASize(asr.seg)))

\* C7: when the ASR block raises on a chunk, the session stays open, the engine
\* is never touched again (no accept_chunk, no try_finalize), and every chunk
\* received afterwards is handed to the recording and is in it unless
\* wav.writeframes itself raised.
C7_RecordingOutlivesAsr ==
    /\ [](\A i, j \in 1..Len(ws.log) :
            (ws.log[i].asr = "raised" /\ i < j) =>
                /\ ws.log[j].asr = "off"
                /\ ws.log[j].written =>
                      \E k \in 1..Len(ws.recorded) : ws.recorded[k] = ws.log[j].data)
    /\ [][(ws.asr_on /\ ~ws'.asr_on) => ws'.state = "open"]_vars
    /\ [][(ws.inited /\ ~ws.asr_on) => asr' = asr]_vars

\* C7 witness: the decoder raised on one chunk, and the next chunk came in and
\* is in the recording.
C7_Witness ==
    /\ ws.state = "open"
    /\ Len(ws.log) >= 2
    /\ ws.log[Len(ws.log) - 1].asr = "raised"
    /\ ws.log[Len(ws.log)].written
    /\ ws.recorded[Len(ws.recorded)] = ws.log[Len(ws.log)].data

(***************************************************************************)
(* Claims about what the engine buffers                                    *)
(***************************************************************************)
\* C11 (as stated): under the default configuration the audio buffered in the
\* open segment stays bounded: however many six-frame chunks the stream is
\* made of, the open segment does not hold the whole of the stream.
C11_OpenSegmentBounded ==
    (asr.cfg \in {BaseCfg, [BaseCfg EXCEPT !.vad_enabled = FALSE]}
        /\ asr.pc = "idle" /\ nchunks = MaxChunks /\ sent = MaxChunks * 6 * Block)
    => ASize(asr.seg) < sent

\* C12: every segment placed in the finalize queue, whole or a per-speaker
\* chunk of a split segment, has start < end and lasts at least the discard
\* threshold, half the minimum turn duration.
C12_QueuedLongEnough ==
    \A i \in 1..Len(asr.emitted) :
        /\ asr.emitted[i].start < asr.emitted[i].end
        /\ (asr.emitted[i].end - asr.emitted[i].start) * 1000
              >= Max(100, MinTurnMs \div 2) * Sr

\* C12 witness: a segment was split between two speakers and both chunks were
\* queued.
C12_Witness ==
    /\ Len(asr.emitted) >= 2
    /\ asr.emitted[1].reason = "vad-stop-split"
    /\ asr.emitted[2].reason = "vad-stop-split"
    /\ asr.emitted[1].label # asr.emitted[2].label

(***************************************************************************)
(* Claims about the gate                                                   *)
(***************************************************************************)
\* every frame processed so far was classified non-speech by the VAD
OnlySilence ==
    asr.cfg.vad_enabled /\ \A i \in 1..Len(asr.frames) : ~asr.frames[i].speech

\* C13: while every frame of the stream has been classified non-speech, the
\* gate has never been in the speaking state, no segment has been opened and
\* nothing has been enqueued.
C13_SilenceOpensNothing ==
    OnlySilence =>
        /\ ~asr.in_speech /\ asr.start_cnt = 0
        /\ \A i \in 1..Len(asr.frames) :
              /\ ~asr.frames[i].in_speech
              /\ asr.frames[i].kind = "idle"
              /\ asr.frames[i].open = 0
        /\ ASize(asr.seg) = 0
        /\ asr.emitted = <<>> /\ asr.queue = <<>>

\* C13 witness: more silent frames than the pre-roll holds went by, chunks
\* of half a frame among them, and the pre-roll is full.
C13_Witness ==
    /\ OnlySilence
    /\ Len(asr.frames) > prepad_frames
    /\ ASize(asr.residual) > 0
    /\ Len(asr.pre) = prepad_frames

(***************************************************************************)
(* Claims about the live timeline                                          *)
(***************************************************************************)
\* the retained windows are strictly increasing in start time
TimelineIncreasing ==
    \A i \in 1..(Len(asr.timeline) - 1) : asr.timeline[i][1] < asr.timeline[i + 1][1]

\* from the start of the oldest retained window to the end of the newest
TimelineSpan ==
    IF Len(asr.timeline) = 0 THEN 0
    ELSE asr.timeline[Len(asr.timeline)][2] - asr.timeline[1][1]

\* what is left of the old timeline is an end of it and the beginning of the
\* new one: only the oldest windows went, new ones came at the end
OnlyOldestRemoved ==
    \E j \in 0..Len(asr.timeline) :
        /\ Len(asr.timeline) - j <= Len(asr'.timeline)
        /\ SubSeq(asr.timeline, j + 1, Len(asr.timeline))
              = SubSeq(asr'.timeline, 1, Len(asr.timeline) - j)
        /\ \A k \in (Len(asr.timeline) - j + 1)..Len(asr'.timeline) :
              \A i \in 1..Len(asr.timeline) : asr.timeline[i][1] < asr'.timeline[k][1]

\* C14 (as stated): after every accept_chunk the retained windows are strictly
\* increasing in start time and span at most the retention horizon plus one
\* window length; trimming only ever removes the oldest windows.
C14_SpanWithinRetentionPlusWindow ==
    /\ [](TimelineIncreasing
          /\ TimelineSpan <= diar_retention_samples(asr) + diar_win_samples(asr))
    /\ [][OnlyOldestRemoved]_vars

\* C14 (amended): the same, the span being at most the retention horizon plus
\* two window lengths less one hop: the oldest retained window ends no earlier
\* than the retention horizon before the next window position, and the newest
\* one starts one hop before that position.
C14_SpanWithinRetentionPlusOverlap ==
    /\ [](TimelineIncreasing
          /\ TimelineSpan <= diar_retention_samples(asr) + 2 * diar_win_samples(asr)
                               - diar_hop_samples
          /\ (Len(asr.timeline) > 0 =>
                 asr.diar_next - asr.timeline[1][1]
                    <= diar_retention_samples(asr) + diar_win_samples(asr)))
    /\ [][OnlyOldestRemoved]_vars

\* C14 witness: with a retention of 1 s the oldest windows have been trimmed
\* and the retained ones span the retention horizon plus two window lengths
\* less one hop.
C14_Witness ==
    /\ asr.cfg.retention_ms = 1000
    /\ Len(asr.timeline) > 0
    /\ asr.timeline[1][1] > 0
    /\ TimelineIncreasing
    /\ TimelineSpan = diar_retention_samples(asr) + 2 * diar_win_samples(asr)
                        - diar_hop_samples

\* the retained windows that overlap [t0, t1)
Overlapping(t0, t1) ==
    {i \in 1..Len(asr.timeline) : asr.timeline[i][1] < t1 /\ asr.timeline[i][2] > t0}

\* the ranges asked about: those of the segments emitted so far, and every
\* range between two six-frame marks of the stream received
AskedRanges ==
    {<<asr.emitted[i].start, asr.emitted[i].end>> : i \in 1..Len(asr.emitted)}
    \cup {<<6 * Block * m, 6 * Block * n>> :
             m \in 0..(sent \div (6 * Block)), n \in 1..(sent \div (6 * Block))}

\* C15 (as stated): whenever at least one retained timeline window overlaps
\* [t0, t1), majority_speaker(t0, t1) returns a label carried by a retained
\* window overlapping [t0, t1), also for ranges asked about earlier.
C15_MajorityFromOverlapping ==
    asr.pc = "idle" =>
        \A r \in AskedRanges :
            (r[1] < r[2] /\ Overlapping(r[1], r[2]) # {}) =>
                \E i \in Overlapping(r[1], r[2]) :
                    asr.timeline[i][3] = MajoritySpeaker(asr, r[1], r[2])

(***************************************************************************)
(* Claims about the rules of assign                                        *)
(***************************************************************************)
\* the similarities of vec to the clusters of c, in the order they were made
SimsTo(c, vec) == [i \in 1..Len(c.centroids) |-> cosine(vec, c.centroids[i][2])]

\* the label of the cluster closest to vec, the oldest one on a tie
BestLabel(c, vec) == c.centroids[ArgMaxIdx(SimsTo(c, vec))][1]
BestSim(c, vec) == SimsTo(c, vec)[ArgMaxIdx(SimsTo(c, vec))]
LastSim(c, vec) == SimsTo(c, vec)[IndexOf(c.centroids, c.last_spk)]

\* C16: for an utterance shorter than min_short arriving while there is an
\* active label, assign returns the active label, unless the best similarity
\* is at least short_alt and exceeds the similarity to the active label by at
\* least short_delta, in which case it returns the best label; the label
\* returned is the active label afterwards.
C16_ShortUtteranceRule ==
    [][(/\ calls' = calls + 1
        /\ ret'.emb = "vec"
        /\ ret'.dur < MinShort
        /\ clu.last_spk # None)
       => /\ ret'.label =
                (IF /\ BestSim(clu, l2_norm(ret'.vec)) >= ShortAlt
                    /\ BestSim(clu, l2_norm(ret'.vec)) - LastSim(clu, l2_norm(ret'.vec))
                          >= ShortDelta
                 THEN BestLabel(clu, l2_norm(ret'.vec))
                 ELSE clu.last_spk)
          /\ clu'.last_spk = ret'.label]_vars

\* C16 witness: a short interjection closest to the other cluster, but not
\* close enough to it (0.6 < short_alt), was given the active label S2.
C16_Witness ==
    /\ ret.kind = "SHORT"
    /\ ret.vec = <<600, -800>>
    /\ Len(clu.centroids) = 2
    /\ ret.label = "S2" /\ clu.last_spk = "S2"
    /\ BestLabel(clu, ret.vec) = "S1"

\* C17: in the single-speaker scenario (every embedding given to the
\* clusterer within cosine 0.95 of the first cluster's centroid, 40 seconds of
\* speech) exactly one cluster is ever created and every label returned is
\* the label of that cluster.
C17_OneSpeakerOneCluster ==
    calls > 0 => (ClusterCount(clu) = 1 /\ ret.label = "S1")

\* the window [w[1], w[2]) of the timeline lies within one turn
WithinTurn(w) == w[1] \div TurnSamples = (w[2] - 1) \div TurnSamples

\* C18: when the two alternating speakers have spoken their 60 s, the live
\* clusterer has exactly two clusters, and the windows of the timeline that
\* lie within a turn carry one label for the first speaker and another label
\* for the second speaker.
C18_TwoSpeakersTwoLabels ==
    (asr.cfg.voices = "alt" /\ asr.pc = "idle" /\ sent = DuetSamples)
    => /\ ClusterCount(asr.live) = 2
       /\ \E la, lb \in {"S1", "S2", "S3"} :
             /\ la # lb
             /\ \A i \in 1..Len(asr.timeline) :
                   WithinTurn(asr.timeline[i])
                   => asr.timeline[i][3] =
                         (IF TurnVoice(asr.timeline[i][1]) = VoiceA THEN la ELSE lb)

\* the frame closed or discarded the open segment: the gate was speaking
\* when it was appended and is idle after it
ClosedBy(f) == f.kind = "append" /\ ~f.in_speech

\* C19: the open segment is one stretch of the stream, and with VAD enabled,
\* after every frame, the segment buffer is non-empty exactly when the gate is
\* speaking: a frame that opens a segment leaves a non-empty buffer and the
\* gate speaking, a frame that leaves the gate idle leaves no buffer, and a
\* frame that closes or discards the segment leaves the buffer empty, the
\* gate idle and the three counters at zero.
C19_BufferIffSpeaking ==
    /\ asr # <<>> => Len(asr.seg) <= 1
    /\ (asr # <<>> /\ asr.cfg.vad_enabled)
       => /\ asr.pc = "idle" => ((ASize(asr.seg) > 0) <=> asr.in_speech)
          /\ \A i \in 1..Len(asr.frames) :
                /\ (asr.frames[i].open > 0) <=> asr.frames[i].in_speech
                /\ asr.frames[i].kind = "seed" => asr.frames[i].open > 0
                /\ asr.frames[i].kind = "idle" => asr.frames[i].open = 0
                /\ ClosedBy(asr.frames[i])
                   => asr.frames[i].open = 0 /\ asr.frames[i].cnt = <<0, 0, 0>>

\* C19 witness: with VAD enabled a segment was closed and queued, a later
\* frame opened the next one, and that one is open now.
C19_Witness ==
    /\ asr # <<>> /\ asr.cfg.vad_enabled /\ asr.pc = "idle"
    /\ asr.in_speech /\ ASize(asr.seg) > 0
    /\ Len(asr.emitted) > 0
    /\ \E i, j \in 1..Len(asr.frames) :
          i < j /\ ClosedBy(asr.frames[i]) /\ asr.frames[j].kind = "seed"

\* the similarity of the runner-up cluster, -1 when there is only one cluster
SecondSim(c, vec) ==
    IF Len(c.centroids) < 2 THEN -SimScale
    ELSE LET others == { SimsTo(c, vec)[j] :
                            j \in (1..Len(c.centroids)) \ {ArgMaxIdx(SimsTo(c, vec))} }
         IN  CHOOSE x \in others : \A y \in others : y <= x

\* C20: in auto mode, when an assign call on a clusterer that has at least one
\* cluster adds a cluster, the call carried an embedding and all the gates
\* held: fewer clusters than k_max, at least the freeze window since the
\* start, at least the cooldown since the last new cluster, a duration of at
\* least the new-speaker minimum, a best similarity below the same-speaker
\* ceiling, and, once there are two clusters, a margin of at least the
\* strong-margin floor.
C20_NewOnlyThroughGates ==
    [][(/\ calls' = calls + 1
        /\ clu.mode = "auto"
        /\ ClusterCount(clu) >= 1
        /\ ClusterCount(clu') > ClusterCount(clu))
       => /\ ret'.emb = "vec"
          /\ ClusterCount(clu') = ClusterCount(clu) + 1
          /\ ClusterCount(clu) < clu.k_max
          /\ clock' - clu.start_t >= FreezeSec
          /\ clock' - clu.last_new_t >= NewCooldown
          /\ ret'.dur >= NewMinSec
          /\ BestSim(clu, l2_norm(ret'.vec)) < SameSpkSim
          /\ \/ ClusterCount(clu) < 2
             \/ BestSim(clu, l2_norm(ret'.vec)) - SecondSim(clu, l2_norm(ret'.vec))
                   >= MarginStrong]_vars

\* C20 witness: a third cluster was just created in auto mode, at the clock
\* of the call, the margin gate being in force with two clusters before it.
C20_Witness ==
    /\ clu.mode = "auto" /\ clu.k_max = 3
    /\ ret.kind = "NEW" /\ ret.label = "S3"
    /\ ClusterCount(clu) = 3
    /\ clu.last_new_t = clock

(***************************************************************************)
(* Claims about cluster labels, the bootstrap buffer and pruning           *)
(***************************************************************************)
\* C21: a cluster created by the new-cluster path of assign gets a label that
\* no cluster had before the call, so the centroids and accumulated durations
\* of the clusters that were there are still there, under their labels, after
\* the call.
C21_NewLabelIsFresh ==
    [][(calls' = calls + 1 /\ ret'.kind = "NEW")
       => /\ ~HasKey(clu.centroids, ret'.label)
          /\ \A k \in Keys(clu.centroids) :
                /\ HasKey(clu'.centroids, k)
                /\ Get(clu'.centroids, k) = Get(clu.centroids, k)
          /\ \A k \in Keys(clu.durations) :
                /\ HasKey(clu'.durations, k)
                /\ Get(clu'.durations, k) = Get(clu.durations, k)]_vars

\* C22: in auto mode an assign call that brings an embedding while no cluster
\* exists and less than boot_sec has elapsed appends the embedding to the
\* bootstrap buffer and creates no cluster.
C22_BufferedUntilExpiry ==
    [][(/\ calls' = calls + 1
        /\ clu.mode = "auto"
        /\ ClusterCount(clu) = 0
        /\ clock' - clu.start_t < BootSec
        /\ ret'.emb = "vec")
       => /\ Len(clu'.boot) = Len(clu.boot) + 1
          /\ ClusterCount(clu') = 0]_vars

\* the clusters of c that are no more in c2
PrunedLabels(c, c2) == Keys(c.centroids) \ Keys(c2.centroids)

\* the centroids once every cluster of `gone`, taken in the order of `order`,
\* has been added to the cluster most similar to it among those not in `gone`
RECURSIVE MergedIntoSurvivors(_, _, _)
MergedIntoSurvivors(cents, order, gone) ==
    IF Len(order) = 0 THEN cents
    ELSE IF Head(order) \notin gone THEN MergedIntoSurvivors(cents, Tail(order), gone)
    ELSE LET mine == Get(cents, Head(order))
             surv == SelectSeq(cents, LAMBDA e : e[1] \notin gone)
             t == surv[ArgMaxIdx(Seq1([i \in 1..Len(surv) |-> cosine(mine, surv[i][2])]))][1]
         IN  MergedIntoSurvivors(
                 Del(Put(cents, t, l2_norm(<<Get(cents, t)[1] + mine[1],
                                             Get(cents, t)[2] + mine[2]>>)),
                     Head(order)),
                 Tail(order), gone)

\* C23: when an assign call in auto mode merges the utterance into a cluster
\* and prunes, the cluster just assigned is not removed and at least one
\* cluster is left; every removed cluster had accumulated less than prune_sec,
\* its duration is dropped and added to no other cluster, and its centroid is
\* added to the centroid of the surviving cluster most similar to it.
C23_PrunedIntoMostSimilarSurvivor ==
    [][(calls' = calls + 1 /\ ret'.kind = "MERGE" /\ clu.mode = "auto")
       => /\ ret'.label \notin PrunedLabels(clu, clu')
          /\ HasKey(clu'.centroids, ret'.label)
          /\ ClusterCount(clu') >= 1
          /\ \A k \in PrunedLabels(clu, clu') :
                /\ HasKey(clu.durations, k)
                /\ Get(clu.durations, k) < PruneSec
                /\ ~HasKey(clu'.durations, k)
          /\ \A k \in Keys(clu'.durations) :
                Get(clu'.durations, k)
                   = GetOr(clu.durations, k, 0) + (IF k = ret'.label THEN ret'.dur ELSE 0)
          /\ clu'.centroids
                = MergedIntoSurvivors(
                     UpdateCentroid(clu.centroids, ret'.label, l2_norm(ret'.vec),
                                    BestSim(clu, l2_norm(ret'.vec))),
                     [i \in 1..Len(clu.durations) |-> clu.durations[i][1]],
                     PrunedLabels(clu, clu'))]_vars

\* C24: after every assign call the active label is unset or names an
\* existing cluster, and every label with an accumulated duration names an
\* existing cluster.
C24_NoDanglingLabel ==
    /\ clu.last_spk = None \/ HasKey(clu.centroids, clu.last_spk)
    /\ Keys(clu.durations) \subseteq Keys(clu.centroids)

\* a pass of pruning has removed two clusters and two are left, the active one
\* among them
C24_Witness ==
    /\ calls > 0
    /\ ret.kind = "MERGE"
    /\ ClusterCount(clu) = 2
    /\ ~HasKey(clu.centroids, "S1")
    /\ ~HasKey(clu.centroids, "S2")
    /\ clu.last_spk = ret.label
    /\ Keys(clu.durations) = Keys(clu.centroids)

(***************************************************************************)
(* Claims about the voice gate                                             *)
(***************************************************************************)
\* C25: the gate goes from idle to speaking on a frame only if that frame and
\* the hang_start_frames - 1 frames before it were all idle frames with
\* speech, and a frame without speech seen while idle leaves the start count
\* at zero.
C25_StartNeedsSpeechRun ==
    \A i \in 1..Len(asr.frames) :
        /\ asr.frames[i].kind = "seed"
              => /\ i >= hang_start_frames
                 /\ \A j \in (i - hang_start_frames + 1)..i :
                       /\ asr.frames[j].speech
                       /\ asr.frames[j].kind = (IF j = i THEN "seed" ELSE "idle")
        /\ (asr.frames[i].kind = "idle" /\ ~asr.frames[i].speech)
              => asr.frames[i].cnt[1] = 0

\* a speech frame counted while idle, a frame without speech that reset the
\* count, and later the frame that opened the gate
C25_Witness ==
    \E i, j, k \in 1..Len(asr.frames) :
        /\ i < j /\ j < k
        /\ asr.frames[i].kind = "idle" /\ asr.frames[i].speech /\ asr.frames[i].cnt[1] > 0
        /\ asr.frames[j].kind = "idle" /\ ~asr.frames[j].speech
        /\ asr.frames[k].kind = "seed"
        /\ \A m \in i..k : asr.frames[m].kind # "append"

\* the shortest run of frames without speech that closes the open segment
StopRun == Max(hang_stop_frames, bridge_frames + 1)

StepTarget(t, best, current_label) ==
    IF current_label # None THEN current_label
    ELSE IF t.last_label # None THEN t.last_label
    ELSE best

\* the streak counters of tracker t once the step that returned r has counted
Counted(t, r) == StepStreaks(t, r.label, r.margin, StepTarget(t, r.label, r.current), r.hop)

\* the cooldown since the last cut of tracker t is over at `now`
Cooled(t, now) == now - t.last_cut_ts >= CutCooldownMs

\* C27 as stated: outside the cooldown, step signals a cut exactly when the
\* margin is at least margin_strong and the segment at least min_switch_sec
\* long, or the opposition streak is at least long_switch_sec, or the weak
\* hits have reached weak_req_n in number and weak_req_sec in duration.
C27_CutOnRuleAsStated ==
    [][(calls' = calls + 1 /\ ret'.some /\ Cooled(asr.trk, clock'))
       => (ret'.cut <=>
              \/ ret'.margin >= StreamMarginStrong /\ ret'.seg_dur >= StreamMinSwitchMs
              \/ Counted(asr.trk, ret').opp_streak >= LongSwitchMs
              \/ /\ Counted(asr.trk, ret').weak_hit_count >= WeakReqN
                 /\ Counted(asr.trk, ret').weak_hit >= WeakReqMs)]_vars

\* C27, amended: outside the cooldown, step signals a cut exactly when the
\* segment is at least min_switch_sec long and the margin is at least
\* margin_strong, or the opposition streak is at least long_switch_sec, or the
\* weak hits have reached weak_req_n in number and weak_req_sec in duration.
C27_CutExactlyOnRule ==
    [][(calls' = calls + 1 /\ ret'.some /\ Cooled(asr.trk, clock'))
       => (ret'.cut <=>
              /\ ret'.seg_dur >= StreamMinSwitchMs
              /\ \/ ret'.margin >= StreamMarginStrong
                 \/ Counted(asr.trk, ret').opp_streak >= LongSwitchMs
                 \/ /\ Counted(asr.trk, ret').weak_hit_count >= WeakReqN
                    /\ Counted(asr.trk, ret').weak_hit >= WeakReqMs)]_vars

\* a cut asked for by the weak hits alone
C27_Witness ==
    /\ calls > 0
    /\ ret.cut
    /\ ret.reason = "weak-accum"
    /\ ret.margin < StreamMarginStrong

\* C28: step signals a cut only when the best label differs from the label
\* of the open segment it was given.
C28_CutOnlyOnChange ==
    [][(calls' = calls + 1 /\ ret'.some /\ ret'.cut
        /\ ret'.current # None /\ HasKey(asr.trk.centroids, ret'.current))
       => ret'.label # ret'.current]_vars

\* C29: step signals a cut only when the cooldown since the cut before is
\* over, and the time of the last cut is the clock of the last step that cut.
C29_CutsCooldownApart ==
    [][(calls' = calls + 1)
       => IF ret'.cut
          THEN Cooled(asr.trk, clock') /\ asr'.trk.last_cut_ts = clock'
          ELSE asr'.trk.last_cut_ts = asr.trk.last_cut_ts]_vars

\* a step within the cooldown of a cut, strong margin and long segment, that
\* did not cut
C29_Witness ==
    /\ calls > 1
    /\ ret.some
    /\ ~ret.cut
    /\ ret.margin >= StreamMarginStrong
    /\ ret.seg_dur >= StreamMinSwitchMs
    /\ clock - asr.trk.last_cut_ts < CutCooldownMs
    /\ asr.trk.last_cut_ts >= 0

(***************************************************************************)
(* Claims about the cut of the tracker                                     *)
(***************************************************************************)
\* frame f closed the segment on a cut of the tracker
CutBy(f) == f.closed \notin {"", "vad-stop", "max-turn"}

\* C30: after a frame has closed the segment on a cut of the tracker with
\* backtrace b, the closed audio ends b before the end of that frame, and the
\* segment opened next starts there, with the whole backtrace remainder.
C30_RemainderCarried ==
    \A i \in 1..Len(asr.frames) :
        (/\ CutBy(asr.frames[i])
         /\ \A j \in (i + 1)..Len(asr.frames) : asr.frames[j].closed = ""
         /\ ASize(asr.seg) > 0)
        => asr.seg[1][1] <= i * Block - Samples(CutBacktraceMs)

(***************************************************************************)
(* Claims about the provisional speaker and the times of a segment         *)
(***************************************************************************)
\* C31: while a segment is open, a frame that does not close it leaves the
\* provisional speaker of the segment, once it has one, as it was.
C31_LabelKeptWithoutCut ==
    \A i \in 2..Len(asr.frames) :
        (/\ asr.frames[i].kind = "append"
         /\ asr.frames[i].closed = ""
         /\ asr.frames[i - 1].open > 0
         /\ asr.frames[i - 1].spk # None)
        => asr.frames[i].spk = asr.frames[i - 1].spk

\* an emitted entry that is a whole segment, not one chunk of a split segment
WholeSegment(e) == e.reason \in {"normal", "vad-stop", "max-turn", "margin-strong",
                                 "long-dominance", "weak-accum"}

\* C32: the start reported for a finalized segment is the stream offset of
\* the first sample of the segment (where it was seeded), and its end is the
\* start plus the length of the audio kept.
C32_TimesFromSeedOffset ==
    \A i \in 1..Len(asr.emitted) :
        WholeSegment(asr.emitted[i])
        => /\ asr.emitted[i].start = asr.emitted[i].audio[1][1]
           /\ asr.emitted[i].end = asr.emitted[i].start + ASize(asr.emitted[i].audio)

(***************************************************************************)
(* Claims about the per-speaker chunks of a segment                        *)
(***************************************************************************)
\* the emitted entries i..j are the per-speaker chunks of one closed segment
ChunksOfOneSegment(i, j) ==
    /\ \A k \in i..j : /\ ~WholeSegment(asr.emitted[k])
                       /\ asr.emitted[k].seg = asr.emitted[i].seg
    /\ (i > 1 => asr.emitted[i - 1].seg # asr.emitted[i].seg)
    /\ (j < Len(asr.emitted) => asr.emitted[j + 1].seg # asr.emitted[i].seg)

\* C33: the per-speaker chunks of a closed segment follow one another without
\* gap or overlap and cover the segment from its start to its end, in the
\* times reported and in the samples carried.
C33_ChunksPartitionSegment ==
    \A i \in 1..Len(asr.emitted) : \A j \in i..Len(asr.emitted) :
        ChunksOfOneSegment(i, j)
        => /\ asr.emitted[i].start = asr.emitted[i].seg[1]
           /\ asr.emitted[j].end = asr.emitted[i].seg[2]
           /\ \A k \in i..(j - 1) :
                 /\ asr.emitted[k].end = asr.emitted[k + 1].start
                 /\ asr.emitted[k].audio[Len(asr.emitted[k].audio)][2]
                       = asr.emitted[k + 1].audio[1][1]

(***************************************************************************)
(* Claims about what a closed segment leaves behind                        *)
(***************************************************************************)
\* the number of entries queued by frame i
QueuedBy(i) == asr.frames[i].queued - (IF i = 1 THEN 0 ELSE asr.frames[i - 1].queued)

\* frame i closed a segment that was long enough to be decoded
Decoded(i) == asr.frames[i].span # <<>>

Discarded(i) == asr.frames[i].closed # "" /\ asr.frames[i].span = <<>>

\* the length of the segment that frame i closed
ClosedSize(i) == (IF i = 1 THEN 0 ELSE asr.frames[i - 1].open) + Block

\* C35: a segment discarded as too short queues nothing, and the segment
\* open after it begins with the most recent audio of the discarded one, up
\* to the capacity of the pre-roll.
C35_ShortTailInNextSegment ==
    \A i \in 1..Len(asr.frames) :
        (/\ Discarded(i)
         /\ \A j \in (i + 1)..Len(asr.frames) : asr.frames[j].closed = ""
         /\ ASize(asr.seg) > 0)
        => /\ QueuedBy(i) = 0
           /\ asr.seg[1][1] <= i * Block - Min(prepad_frames * Block, ClosedSize(i))

(***************************************************************************)
(* Claims about the pre-roll                                               *)
(***************************************************************************)
\* the pre-roll, and the number of its pieces, before frame j
PreBefore(j) == IF j = 1 THEN <<>> ELSE asr.frames[j - 1].pre
HeldBefore(j) == IF j = 1 THEN 0 ELSE asr.frames[j - 1].held

\* the pre-roll before frame j with frame j appended, the oldest piece
\* dropped when there are more than prepad_frames
PreWith(j) ==
    ALast(AConcat(PreBefore(j), asr.frames[j].frame),
          Min(HeldBefore(j) + 1, prepad_frames) * Block)

\* C36: the pre-roll never holds more than prepad_frames pieces, the oldest
\* being dropped first; the frame on which the gate opens seeds the segment
\* with the content of the pre-roll, which is the most recent audio up to the
\* end of that frame and includes the frames of the detection, and leaves the
\* pre-roll empty.
C36_PreRollSeedsSegment ==
    \A j \in 1..Len(asr.frames) :
        /\ asr.frames[j].held <= prepad_frames
        /\ asr.frames[j].kind = "idle" => asr.frames[j].pre = PreWith(j)
        /\ asr.frames[j].kind = "seed"
           => /\ asr.frames[j].seg = PreWith(j)
              /\ asr.frames[j].seg = <<<<j * Block - asr.frames[j].open, j * Block>>>>
              /\ asr.frames[j].open >= hang_start_frames * Block
              /\ asr.frames[j].held = 0

\* C36 witness: the gate opened on a full pre-roll that had dropped a frame,
\* and again on a pre-roll that held the tail of a closed segment.
C36_Witness ==
    /\ \E j \in 1..Len(asr.frames) :
          /\ asr.frames[j].kind = "seed"
          /\ HeldBefore(j) = prepad_frames
          /\ asr.frames[j].seg[1][1] > 0
    /\ \E i \in 1..Len(asr.frames) : \E j \in (i + 1)..Len(asr.frames) :
          /\ asr.frames[i].closed # ""
          /\ asr.frames[j].kind = "seed"
          /\ asr.frames[j].seg[1][1] < i * Block

(***************************************************************************)
(* Claims about the windows of the live timeline                           *)
(***************************************************************************)
\* the number of windows [k * hop, k * hop + win) that end within n samples
WindowsWithin(n) ==
    IF n < diar_win_samples(asr) THEN 0
    ELSE (n - diar_win_samples(asr)) \div diar_hop_samples + 1

\* the position k of the i-th retained window when the newest is the last of
\* the windows that end within the samples fed
WindowAt(i) == WindowsWithin(sent) - Len(asr.timeline) + i - 1

\* C37: with live diarization on, after n samples have been fed the timeline
\* has been given the windows [k * hop, k * hop + win) that end within n, one
\* each, in increasing k, each with a label of the clusterer; the windows
\* retained are the newest of them, and all of them while the retention time
\* is not reached.
C37_OneWindowPerHop ==
    asr.cfg.live_diar
    => /\ asr.diar_total = sent
       /\ asr.diar_next = WindowsWithin(sent) * diar_hop_samples
       /\ Len(asr.timeline) <= WindowsWithin(sent)
       /\ sent <= diar_retention_samples(asr) => Len(asr.timeline) = WindowsWithin(sent)
       /\ \A i \in 1..Len(asr.timeline) :
             /\ asr.timeline[i][1] = WindowAt(i) * diar_hop_samples
             /\ asr.timeline[i][2] = WindowAt(i) * diar_hop_samples + diar_win_samples(asr)
             /\ asr.timeline[i][3] # None

\* C37 witness: three chunks or more were fed, 0.3 s long and longer, with
\* the gate closed and open, and the timeline holds three windows or more.
C37_Witness ==
    /\ asr.cfg.live_diar
    /\ Len(asr.timeline) >= 3
    /\ nchunks >= 3
    /\ sent % (2 * 4800) = 4800
    /\ \E i \in 1..Len(asr.frames) : asr.frames[i].in_speech
    /\ \E i \in 1..Len(asr.frames) : ~asr.frames[i].in_speech

C39_GuardAsShortRule ==
    [][(/\ calls' = calls + 1
        /\ ret'.emb = "vec"
        /\ ret'.dur >= MinShort
        /\ ret'.dur < MinSwitch
        /\ clu.last_spk # None)
       => ret'.label =
             (IF /\ BestSim(clu, l2_norm(ret'.vec)) >= ShortAlt
                 /\ BestSim(clu, l2_norm(ret'.vec)) - LastSim(clu, l2_norm(ret'.vec))
                       >= ShortDelta
              THEN BestLabel(clu, l2_norm(ret'.vec))
              ELSE clu.last_spk)]_vars

(***************************************************************************)
(* Claims about concurrent sessions                                        *)
(***************************************************************************)
\* C40: what a session has stored and sent to its client is what it would
\* have stored and sent given the same segments at the same times with no
\* other session in the process.
C40_SessionsApart ==
    /\ ws.first.rows = ws.alone.rows
    /\ ws.first.finals = ws.alone.finals

=============================================================================
